---------------------------- MODULE Spec2Model ----------------------------
(***************************************************************************)
(* Model of the DCF valuation engine of Proyecto-DCF                       *)
(* (src/dcf_core/finanzas.py and its callers).                             *)
(*                                                                         *)
(* The engine is a set of pure functions over Python floats.  A float is   *)
(* modelled as an extended rational:                                       *)
(*     <<n, d>> with d > 0 and gcd(n, d) = 1   a finite value n/d          *)
(*     <<1, 0>>, <<-1, 0>>, <<0, 0>>           +inf, -inf, nan             *)
(* Python's None is the empty tuple and a raised exception is the one      *)
(* element tuple holding the exception's name.  Finite arithmetic is exact *)
(* (no rounding and no overflow of finite values); the non-finite values   *)
(* follow IEEE-754 as Python exposes it (float division by zero raises).   *)
(* The state machine records one call of an engine function at a time:     *)
(* the function, its arguments and what it returned.  A second             *)
(* specification, SpecGuardar, runs the analysis requests of the web view  *)
(* side by side: a clock, the stored AnalysisRecord rows and the position  *)
(* of each request in views._guardar_analisis.                             *)
(***************************************************************************)
EXTENDS Integers, Sequences, FiniteSets, TLC

VARIABLES fn, args, ret, now, analysis_records, requests

motor == <<fn, args, ret>>
persistencia == <<now, analysis_records, requests>>
vars == <<fn, args, ret, now, analysis_records, requests>>

-----------------------------------------------------------------------------
(* Python values *)

None == <<>>
NaN == <<0, 0>>
PInf == <<1, 0>>
NInf == <<-1, 0>>
ZeroDivisionError == <<"ZeroDivisionError">>
TypeError == <<"TypeError">>

IsNone(x) == Len(x) = 0
IsExc(x) == Len(x) = 1
IsNum(x) == Len(x) = 2
IsNaN(x) == IsNum(x) /\ x = NaN
IsInf(x) == IsNum(x) /\ x[2] = 0 /\ x[1] # 0
IsFinite(x) == IsNum(x) /\ x[2] > 0

AbsInt(a) == IF a < 0 THEN -a ELSE a

RECURSIVE GCD(_, _)
GCD(a, b) == IF b = 0 THEN a ELSE GCD(b, a % b)

(* the float n/d, d # 0 *)
Rat(n, d) ==
    LET g == GCD(AbsInt(n), AbsInt(d))
        s == IF d < 0 THEN -1 ELSE 1
    IN  <<s * (n \div g), s * (d \div g)>>

Num(n) == <<n, 1>>
SignOf(x) == IF x[1] > 0 THEN 1 ELSE IF x[1] < 0 THEN -1 ELSE 0
IsZero(x) == IsFinite(x) /\ x[1] = 0

(* an operand that is not a float makes the operation raise *)
BadOperand(x, y) ==
    IF IsExc(x) THEN x ELSE IF IsExc(y) THEN y ELSE TypeError

(* comparisons: every comparison with nan is False *)
FLt(x, y) ==
    /\ ~IsNaN(x) /\ ~IsNaN(y)
    /\ IF IsFinite(x) /\ IsFinite(y)
       THEN x[1] * y[2] < y[1] * x[2]
       ELSE (IF IsInf(x) THEN x[1] ELSE 0) < (IF IsInf(y) THEN y[1] ELSE 0)
FEq(x, y) == ~IsNaN(x) /\ ~IsNaN(y) /\ x = y
FLe(x, y) == FLt(x, y) \/ FEq(x, y)
FGt(x, y) == FLt(y, x)
FGe(x, y) == FLe(y, x)
FNe(x, y) == ~FEq(x, y)

FNeg(x) == IF IsNum(x) THEN <<-x[1], x[2]>> ELSE BadOperand(x, x)
FAbs(x) == IF IsNum(x) THEN <<AbsInt(x[1]), x[2]>> ELSE BadOperand(x, x)

FAdd(x, y) ==
    IF ~(IsNum(x) /\ IsNum(y)) THEN BadOperand(x, y)
    ELSE IF IsNaN(x) \/ IsNaN(y) THEN NaN
    ELSE IF IsInf(x) THEN (IF IsInf(y) /\ y # x THEN NaN ELSE x)
    ELSE IF IsInf(y) THEN y
    ELSE LET g == GCD(x[2], y[2])
             l == (x[2] \div g) * y[2]
         IN  Rat(x[1] * (l \div x[2]) + y[1] * (l \div y[2]), l)

FSub(x, y) == FAdd(x, FNeg(y))

FMul(x, y) ==
    IF ~(IsNum(x) /\ IsNum(y)) THEN BadOperand(x, y)
    ELSE IF IsNaN(x) \/ IsNaN(y) THEN NaN
    ELSE IF IsInf(x) \/ IsInf(y)
         THEN <<SignOf(x) * SignOf(y), 0>>
    ELSE LET g1 == GCD(AbsInt(x[1]), y[2])
             g2 == GCD(AbsInt(y[1]), x[2])
         IN  Rat((x[1] \div g1) * (y[1] \div g2), (x[2] \div g2) * (y[2] \div g1))

FDiv(x, y) ==
    IF ~(IsNum(x) /\ IsNum(y)) THEN BadOperand(x, y)
    ELSE IF IsZero(y) THEN ZeroDivisionError
    ELSE IF IsNaN(x) \/ IsNaN(y) THEN NaN
    ELSE IF IsInf(y) THEN (IF IsInf(x) THEN NaN ELSE Num(0))
    ELSE IF IsInf(x) THEN <<SignOf(x) * SignOf(y), 0>>
    ELSE FMul(x, Rat(y[2], y[1]))

(* the builtin min(a, b): b if b < a, else a *)
FMin(a, b) == IF FLt(b, a) THEN b ELSE a

RECURSIVE IntPow(_, _)
IntPow(a, k) == IF k = 0 THEN 1 ELSE a * IntPow(a, k - 1)

(* the largest k with k^n <= a, for a >= 0 and n >= 1 *)
IntRoot(a, n) == CHOOSE k \in 0..a : IntPow(k, n) <= a /\ a < IntPow(k + 1, n)


(* resolution of a root that is not a rational number *)
RootScale == 10

(* x ** (1/n) for a float x > 0: the exact root when it is rational,
   otherwise the root cut to the resolution 1/RootScale *)
FRoot(x, n) ==
    IF IsInf(x) THEN x
    ELSE LET ra == IntRoot(x[1], n)
             rb == IntRoot(x[2], n)
         IN  IF IntPow(ra, n) = x[1] /\ IntPow(rb, n) = x[2]
             THEN Rat(ra, rb)
             ELSE Rat(IntRoot((x[1] * IntPow(RootScale, n)) \div x[2], n), RootScale)

RECURSIVE FPowInt(_, _)
FPowInt(x, k) == IF k = 0 THEN Num(1) ELSE FMul(x, FPowInt(x, k - 1))

(* x ** e for a float x and an exponent e that is a non-negative integer
   or 1/n; a negative base with a fractional exponent is complex in Python *)
FPow(x, e) ==
    IF ~(IsNum(x) /\ IsNum(e)) THEN BadOperand(x, e)
    ELSE IF e[2] = 1 THEN FPowInt(x, e[1])
    ELSE IF IsNaN(x) THEN NaN
    ELSE IF FLt(x, Num(0)) THEN <<"complex">>
    ELSE IF IsZero(x) THEN Num(0)
    ELSE FRoot(x, e[2])

-----------------------------------------------------------------------------
(* finanzas.proyectar_fcf *)

DefaultAnios == 5

(* the first year compounded whatever the sign of fcf_actual *)
PrimerAnioCompuesto(fcf_actual, tasa_crecimiento) ==
    FMul(fcf_actual, FAdd(Num(1), tasa_crecimiento))

(* the value of the first year (i == 0) *)
PrimerAnio(fcf_actual, tasa_crecimiento) ==
    IF FGt(fcf_actual, Num(0))
    THEN FMul(fcf_actual, FAdd(Num(1), tasa_crecimiento))
    ELSE FAdd(FMul(FNeg(fcf_actual), tasa_crecimiento), fcf_actual)

(* a single multiplicative formula in place of the sign-dependent branch *)
AnioSiguienteGeometrico(prev, prev_prev, tasa_crecimiento) ==
    FMul(prev, FAdd(Num(1), tasa_crecimiento))

(* the value of a later year (i >= 1) *)
AnioSiguiente(prev, prev_prev, tasa_crecimiento) ==
    IF FGt(prev, Num(0))
    THEN FMul(prev, FAdd(Num(1), tasa_crecimiento))
    ELSE FAdd(FMul(FSub(prev, prev_prev), FAdd(Num(1), tasa_crecimiento)), prev)

(* the list `proyecciones` after the loop body ran for i = 0 .. n-1 *)
RECURSIVE proyecciones(_, _, _)
proyecciones(fcf_actual, tasa_crecimiento, n) ==
    IF n <= 0 THEN <<>>
    ELSE LET hechas == proyecciones(fcf_actual, tasa_crecimiento, n - 1)
             i == n - 1
             fcf == IF i = 0
                    THEN PrimerAnio(fcf_actual, tasa_crecimiento)
                    ELSE LET prev == hechas[Len(hechas)]
                             prev_prev == IF i = 1 THEN fcf_actual
                                          ELSE hechas[Len(hechas) - 1]
                         IN  AnioSiguiente(prev, prev_prev, tasa_crecimiento)
         IN  Append(hechas, fcf)

(* the loop starting at 1: one year short *)
proyectar_fcf_corto(fcf_actual, tasa_crecimiento, anios) ==
    proyecciones(fcf_actual, tasa_crecimiento, anios - 1)

proyectar_fcf(fcf_actual, tasa_crecimiento, anios) ==
    proyecciones(fcf_actual, tasa_crecimiento, anios)

-----------------------------------------------------------------------------
(* finanzas.calcular_crecimientos *)

DefaultGrowth == Rat(1, 20)

RECURSIVE Reversed(_)
Reversed(s) == IF s = <<>> THEN <<>> ELSE Append(Reversed(Tail(s)), Head(s))

(* sum(xs): the builtin starts from the integer 0 and adds left to right *)
RECURSIVE FSum(_)
FSum(xs) ==
    IF xs = <<>> THEN Num(0)
    ELSE FAdd(FSum(SubSeq(xs, 1, Len(xs) - 1)), xs[Len(xs)])

IsUsable(v) == ~IsNone(v)
IsNotNa(v) == ~IsNone(v) /\ ~IsNaN(v)

(* None entries kept and read as 0.0 *)
ValoresSinFiltro(fcf_series) ==
    [i \in 1..Len(fcf_series.items) |->
        IF IsNone(fcf_series.items[i]) THEN Num(0) ELSE fcf_series.items[i]]

(* the list `valores`; fcf_series is absent, a pandas Series (it has dropna)
   or a plain sequence *)
Valores(fcf_series) ==
    IF fcf_series.kind = "None" THEN <<>>
    ELSE IF fcf_series.kind = "Series" THEN SelectSeq(fcf_series.items, IsNotNa)
    ELSE SelectSeq(fcf_series.items, IsUsable)

(* isinf forgotten *)
sanitize_sin_isinf(valor) ==
    IF IsNone(valor) THEN DefaultGrowth
    ELSE IF IsNaN(valor) THEN DefaultGrowth
    ELSE valor

sanitize(valor) ==
    IF IsNone(valor) THEN DefaultGrowth
    ELSE IF IsNaN(valor) \/ IsInf(valor) THEN DefaultGrowth
    ELSE valor

(* only `ultimo` non-zero is asked for *)
CagrDefinidoSinSigno(primero, ultimo) ==
    /\ ~(FEq(ultimo, Num(0)) \/ IsNone(ultimo))
    /\ FNe(ultimo, Num(0))

(* the guard of the CAGR computation *)
CagrDefinido(primero, ultimo) ==
    /\ ~(FEq(ultimo, Num(0)) \/ IsNone(ultimo))
    /\ FNe(ultimo, Num(0))
    /\ FGt(primero, Num(0))
    /\ FGt(ultimo, Num(0))

(* the number of values taken for the number of periods *)
ExponenteSinRestar(valores) == FDiv(Num(1), Num(Len(valores)))

Exponente(valores) == FDiv(Num(1), Num(Len(valores) - 1))

CagrCalc(valores) ==
    LET primero == valores[1]
        ultimo == valores[Len(valores)]
    IN  IF CagrDefinido(primero, ultimo)
        THEN LET exponente == Exponente(valores)
                 ratio == FDiv(primero, ultimo)
             IN  IF IsExc(exponente) \/ IsExc(ratio) THEN None
                 ELSE IF FGt(ratio, Num(0))
                      THEN FSub(FPow(ratio, exponente), Num(1))
                      ELSE None
        ELSE None

(* the change divided by `anterior`, not by its absolute value *)
VariacionSinAbs(anterior, actual) == FDiv(FSub(actual, anterior), anterior)

Variacion(anterior, actual) == FDiv(FSub(actual, anterior), FAbs(anterior))

(* the list `tasas` after the pairs 1 .. k of the chronological values *)
RECURSIVE Tasas(_, _)
Tasas(cron, k) ==
    IF k <= 0 THEN <<>>
    ELSE LET previas == Tasas(cron, k - 1)
             anterior == cron[k]
             actual == cron[k + 1]
             denominador == FAbs(anterior)
         IN  IF IsZero(denominador) THEN previas
             ELSE Append(previas, Variacion(anterior, actual))

PromedioCalc(valores) ==
    LET valores_cronologicos == Reversed(valores)
        tasas == Tasas(valores_cronologicos, Len(valores_cronologicos) - 1)
    IN  IF tasas # <<>> THEN FDiv(FSum(tasas), Num(Len(tasas))) ELSE None

calcular_crecimientos(fcf_series) ==
    LET valores == Valores(fcf_series)
    IN  IF Len(valores) > 1
        THEN <<sanitize(CagrCalc(valores)), sanitize(PromedioCalc(valores))>>
        ELSE <<DefaultGrowth, DefaultGrowth>>

-----------------------------------------------------------------------------
(* finanzas.calcular_valor_intrinseco *)

DefaultCrecimientoPerpetuo == Rat(1, 50)
MargenCrecimiento == Rat(1, 200)

(* enumerate without start=1: the first flow is not discounted *)
FlujosDescontadosDesdeCero(fcf_proyectado, wacc) ==
    [i \in 1..Len(fcf_proyectado) |->
        FDiv(fcf_proyectado[i], FPow(FAdd(Num(1), wacc), Num(i - 1)))]

(* the discounted flows fcf / ((1 + wacc) ** i) for i, fcf in enumerate(.., start=1) *)
FlujosDescontados(fcf_proyectado, wacc) ==
    [i \in 1..Len(fcf_proyectado) |->
        FDiv(fcf_proyectado[i], FPow(FAdd(Num(1), wacc), Num(i)))]

(* wacc >= crecimiento_perpetuo accepted *)
CrecimientoAjustadoConIgual(wacc, crecimiento_perpetuo) ==
    IF FGe(wacc, crecimiento_perpetuo)
    THEN FMin(crecimiento_perpetuo, FSub(wacc, MargenCrecimiento))
    ELSE None

(* the perpetuity growth taken as it is, without min(.., wacc - 0.005) *)
CrecimientoAjustadoSinMargen(wacc, crecimiento_perpetuo) ==
    IF FGt(wacc, crecimiento_perpetuo) THEN crecimiento_perpetuo ELSE None

CrecimientoAjustado(wacc, crecimiento_perpetuo) ==
    IF FGt(wacc, crecimiento_perpetuo)
    THEN FMin(crecimiento_perpetuo, FSub(wacc, MargenCrecimiento))
    ELSE None

(* a negative adjusted growth accepted *)
CrecimientoInvalidoSoloNone(crecimiento_ajustado) == IsNone(crecimiento_ajustado)

(* the denominator of valor_residual *)
DenominadorResidual(wacc, crecimiento_ajustado) == FSub(wacc, crecimiento_ajustado)

CrecimientoInvalido(crecimiento_ajustado) ==
    IsNone(crecimiento_ajustado) \/ FLt(crecimiento_ajustado, Num(0))

calcular_valor_intrinseco(fcf_proyectado, wacc, crecimiento_perpetuo) ==
    IF fcf_proyectado = <<>> \/ FLe(wacc, Num(0)) THEN None
    ELSE LET vp_fcf == FSum(FlujosDescontados(fcf_proyectado, wacc))
             crecimiento_ajustado == CrecimientoAjustado(wacc, crecimiento_perpetuo)
         IN  IF IsExc(vp_fcf) THEN vp_fcf
             ELSE IF CrecimientoInvalido(crecimiento_ajustado) THEN None
             ELSE LET fcf_final == fcf_proyectado[Len(fcf_proyectado)]
                      valor_residual ==
                          FDiv(FMul(fcf_final, FAdd(Num(1), crecimiento_ajustado)),
                               DenominadorResidual(wacc, crecimiento_ajustado))
                  IN  IF valor_residual = ZeroDivisionError THEN None
                      ELSE LET valor_residual_desc ==
                                   FDiv(valor_residual,
                                        FPow(FAdd(Num(1), wacc), Num(Len(fcf_proyectado))))
                           IN  FAdd(vp_fcf, valor_residual_desc)

-----------------------------------------------------------------------------
(* finanzas.calcular_wacc *)

DefaultRiskFreeRate == Rat(441, 10000)
DefaultMarketReturn == Rat(2, 25)

(* cost_of_equity = risk_free_rate + beta * (market_return - risk_free_rate) *)
CostOfEquity(beta, risk_free_rate, market_return) ==
    FAdd(risk_free_rate, FMul(beta, FSub(market_return, risk_free_rate)))

(* the debt term without the factor (1 - tax_rate) *)
WaccSinEscudoFiscal(debt, equity, cost_of_equity, cost_of_debt, tax_rate) ==
    FAdd(FMul(FDiv(equity, FAdd(equity, debt)), cost_of_equity),
         FMul(FDiv(debt, FAdd(equity, debt)), cost_of_debt))

(* the weighted sum of the last line of calcular_wacc *)
WaccPonderado(debt, equity, cost_of_equity, cost_of_debt, tax_rate) ==
    FAdd(FMul(FDiv(equity, FAdd(equity, debt)), cost_of_equity),
         FMul(FMul(FDiv(debt, FAdd(equity, debt)), cost_of_debt),
              FSub(Num(1), tax_rate)))

calcular_wacc(beta, debt, equity, cost_of_debt, tax_rate, risk_free_rate, market_return) ==
    LET cost_of_equity == CostOfEquity(beta, risk_free_rate, market_return)
    IN  IF FEq(FAdd(equity, debt), Num(0)) THEN Num(0)
        ELSE WaccPonderado(debt, equity, cost_of_equity, cost_of_debt, tax_rate)

-----------------------------------------------------------------------------
(* finanzas.obtener_tasa_libre_riesgo *)

(* a value that float() rejects: a text that is not a number *)
NoNumerico == <<"no", "es", "numero">>

(* the "value" of an observation without data *)
SinDato == <<".", ".", ".">>

FallbackRiskFreeRate == Rat(441, 10000)

(* next((obs for obs in datos["observations"] if obs["value"] != "."), None):
   the position of the first observation with data, 0 when there is none *)
Ultima(observations) ==
    IF \E i \in 1..Len(observations) : observations[i] # SinDato
    THEN CHOOSE i \in 1..Len(observations) :
             /\ observations[i] # SinDato
             /\ \A j \in 1..(i - 1) : observations[j] = SinDato
    ELSE 0

(* response: the outcome of the request to FRED; a failed request, a bad
   status and a value that is not a number all end in the bare except *)
obtener_tasa_libre_riesgo(response) ==
    IF response.status # "ok" THEN FallbackRiskFreeRate
    ELSE LET ultima == Ultima(response.observations)
         IN  IF ultima = 0 THEN FallbackRiskFreeRate
             ELSE IF ~IsNum(response.observations[ultima]) THEN FallbackRiskFreeRate
             ELSE FDiv(response.observations[ultima], Num(100))

-----------------------------------------------------------------------------
(* fmp.obtener_fcf_historico *)

(* an FCFEntry: year is an int or None, value a float *)
FCFEntry(year, value) == [year |-> year, value |-> value]

(* (a.year is None, -(a.year or 0)) < (b.year is None, -(b.year or 0)) *)
Antes(a, b) ==
    \/ ~IsNone(a.year) /\ IsNone(b.year)
    \/ ~IsNone(a.year) /\ ~IsNone(b.year) /\ FGt(a.year, b.year)

(* item placed after every entry of the sorted list whose key is not greater *)
RECURSIVE Insertar(_, _)
Insertar(item, ordenado) ==
    IF ordenado = <<>> THEN <<item>>
    ELSE IF Antes(item, Head(ordenado)) THEN <<item>> \o ordenado
    ELSE <<Head(ordenado)>> \o Insertar(item, Tail(ordenado))

(* historial.sort(key=...): list.sort is stable *)
RECURSIVE Ordenar(_)
Ordenar(historial) ==
    IF historial = <<>> THEN <<>>
    ELSE Insertar(historial[Len(historial)],
                  Ordenar(SubSeq(historial, 1, Len(historial) - 1)))

(* historial: what FMPClient.get_free_cash_flow_history returned *)
obtener_fcf_historico(historial) == Ordenar(historial)

-----------------------------------------------------------------------------
(* fmp.obtener_metricas_financieras and DCF_Main._obtener_metricas_yfinance *)

LimiteTasa == Rat(3, 2)

(* abs(float(x)) if x not in (None, "") else None; text that float()
   rejects leaves no value either *)
AbsFloat(x) == IF IsNum(x) THEN FAbs(x) ELSE None

(* 0 <= tasa <= 1.5 *)
TasaValidaConLimite(tasa) == FLe(Num(0), tasa) /\ FLe(tasa, LimiteTasa)

(* 0 <= tasa < 1.5 *)
TasaValida(tasa) == FLe(Num(0), tasa) /\ FLt(tasa, LimiteTasa)

(* the sample of one year, None when the year gives none *)
TasaAnual(impuesto, ingreso_pre_impuesto) ==
    LET impuesto_float == AbsFloat(impuesto)
        ingreso_float == IF IsNum(ingreso_pre_impuesto) THEN ingreso_pre_impuesto ELSE None
    IN  IF IsNone(impuesto_float) \/ IsNone(ingreso_float) \/ IsZero(ingreso_float)
        THEN None
        ELSE LET tasa == FDiv(impuesto_float, FAbs(ingreso_float))
             IN  IF TasaValida(tasa) THEN tasa ELSE None

(* the debt of one balance sheet: totalDebt, else the sum of the short and
   long term debt that are given *)
DeudaValor(balance) ==
    IF ~IsNone(balance.total_debt) THEN AbsFloat(balance.total_debt)
    ELSE LET corta == AbsFloat(balance.short_debt)
             larga == AbsFloat(balance.long_debt)
         IN  IF IsNone(corta) /\ IsNone(larga) THEN None
             ELSE FAdd(IF IsNone(corta) THEN Num(0) ELSE corta,
                       IF IsNone(larga) THEN Num(0) ELSE larga)

(* the cost of debt of one year, None when the year gives none *)
CostoAnual(interes, deuda) ==
    LET interes_float == AbsFloat(interes)
    IN  IF IsNone(interes_float) \/ IsNone(deuda) \/ IsZero(deuda) THEN None
        ELSE LET costo == FDiv(interes_float, deuda)
             IN  IF FGe(costo, Num(0)) THEN costo ELSE None

(* a dictionary keyed by year filled in the order of the statements: the
   last statement of a year that gives a sample sets the year's entry *)
PorAnio(statements, Muestra(_)) ==
    LET da(i) == ~IsNone(statements[i].year) /\ ~IsNone(Muestra(statements[i]))
        ultimo(y) == CHOOSE i \in 1..Len(statements) :
                         /\ da(i) /\ statements[i].year = y
                         /\ \A j \in (i + 1)..Len(statements) :
                                ~(da(j) /\ statements[j].year = y)
    IN  [y \in {statements[i].year : i \in {k \in 1..Len(statements) : da(k)}} |->
            Muestra(statements[ultimo(y)])]

RECURSIVE SumaDe(_, _)
SumaDe(d, claves) ==
    IF claves = {} THEN Num(0)
    ELSE LET y == CHOOSE k \in claves : TRUE
         IN  FAdd(d[y], SumaDe(d, claves \ {y}))

(* sum(d.values()) / len(d) if d else None *)
Promedio(d) ==
    IF DOMAIN d = {} THEN None
    ELSE FDiv(SumaDe(d, DOMAIN d), Num(Cardinality(DOMAIN d)))

(* balance_por_año / deuda_por_año: the debt of each dated balance sheet
   that has one different from zero *)
DeudaPorAnio(balance_statements) ==
    LET Muestra(b) == IF IsZero(DeudaValor(b)) THEN None ELSE DeudaValor(b)
    IN  PorAnio(balance_statements, Muestra)

MetricasDe(income_statements, balance_statements) ==
    LET balance_por_anio == DeudaPorAnio(balance_statements)
        Tasa(income) == TasaAnual(income.impuesto, income.ingreso_pre_impuesto)
        Costo(income) ==
            IF income.year \in DOMAIN balance_por_anio
            THEN CostoAnual(income.interes, balance_por_anio[income.year])
            ELSE None
        tasas_por_anio == PorAnio(income_statements, Tasa)
        costo_por_anio == PorAnio(income_statements, Costo)
    IN  [tax_rate |-> Promedio(tasas_por_anio),
         tax_samples |-> tasas_por_anio,
         cost_of_debt |-> Promedio(costo_por_anio),
         cost_samples |-> costo_por_anio]

(* the statements FMP returned: a statement without a year is skipped *)
obtener_metricas_financieras(income_statements, balance_statements) ==
    MetricasDe(income_statements, balance_statements)

(* the rows of the yfinance financials and balance sheet, one entry per
   column; dropna() leaves None for a missing figure *)
obtener_metricas_yfinance(financials, balance) ==
    LET m == MetricasDe(financials, balance)
    IN  <<m.tax_rate, m.tax_samples, m.cost_of_debt, m.cost_samples>>

-----------------------------------------------------------------------------
(* empresa.analizar_empresa *)

DefaultBeta == Num(1)
DefaultTaxRate == Rat(1, 4)
DefaultCostOfDebt == Rat(1, 20)
crecimiento_largo_plazo == Rat(1, 50)
UmbralSubvaluada == Rat(11, 10)
UmbralSobrevaluada == Rat(9, 10)

(* to_float(value, default): float(value), or the default when float()
   raises TypeError or ValueError; nan and inf are floats and pass *)
to_float(value, default) == IF IsNum(value) THEN value ELSE default

(* the truth value of a float: False for 0.0 only *)
Truthy(x) == IsNum(x) /\ ~IsZero(x)

(* value_info if override is None else float(override) *)
ConOverride(info_value, override) ==
    IF IsNone(override) THEN info_value ELSE override

RECURSIVE FcfDeHistorial(_)
(* the list fcf built from the entries of fcf_historial: an entry whose
   value is None is skipped *)
FcfDeHistorial(fcf_historial) ==
    IF fcf_historial = <<>> THEN <<>>
    ELSE LET resto == FcfDeHistorial(Tail(fcf_historial))
             raw_valor == Head(fcf_historial).value
         IN  IF IsNone(raw_valor) THEN resto
             ELSE <<to_float(raw_valor, Num(0))>> \o resto

(* the oldest flow taken as the current one *)
FcfActualMasAntiguo(fcf) == IF fcf # <<>> THEN fcf[Len(fcf)] ELSE Num(0)

(* fcf_actual = fcf[0] if fcf else 0.0 *)
FcfActual(fcf) == IF fcf # <<>> THEN fcf[1] ELSE Num(0)

(* the average rate whatever the method *)
TasaCrecimientoSiemprePromedio(metodo_crecimiento, crecimiento, avg_growth_rate) ==
    avg_growth_rate

TasaCrecimiento(metodo_crecimiento, crecimiento, avg_growth_rate) ==
    IF metodo_crecimiento = "2" THEN avg_growth_rate ELSE crecimiento

(* the market premium taken over zero instead of over the risk-free rate *)
CapmSinPrima(tasa_rf, beta, market_return) ==
    FAdd(tasa_rf, FMul(beta, market_return))

Capm(tasa_rf, beta, market_return) ==
    FAdd(tasa_rf, FMul(beta, FSub(market_return, tasa_rf)))

EquityValue(valor_total, debt) ==
    IF ~IsNone(valor_total) THEN FSub(valor_total, debt) ELSE None

(* zero shares read as one share *)
ValorPorAccionSinGuarda(equity_value, acciones) ==
    IF IsNone(equity_value) THEN None
    ELSE IF Truthy(acciones) THEN FDiv(equity_value, acciones)
    ELSE equity_value

(* the division made without asking whether there are shares *)
ValorPorAccionSiempreDivide(equity_value, acciones) ==
    IF ~IsNone(equity_value) THEN FDiv(equity_value, acciones) ELSE None

ValorPorAccion(equity_value, acciones) ==
    IF ~IsNone(equity_value) /\ Truthy(acciones)
    THEN FDiv(equity_value, acciones)
    ELSE None

(* the difference left undefined at a price of zero *)
DiferenciaSoloConPrecio(valor_por_accion, precio) ==
    IF ~IsNone(valor_por_accion) /\ Truthy(precio)
    THEN FSub(valor_por_accion, precio)
    ELSE None

Diferencia(valor_por_accion, precio) ==
    IF ~IsNone(valor_por_accion) THEN FSub(valor_por_accion, precio) ELSE None

(* the price not asked to be non-zero *)
DiferenciaPctSinGuarda(diferencia, precio) ==
    IF ~IsNone(diferencia)
    THEN (IF IsZero(precio) THEN Num(0)
          ELSE FMul(FDiv(diferencia, precio), Num(100)))
    ELSE None

DiferenciaPct(diferencia, precio) ==
    IF ~IsNone(diferencia) /\ Truthy(precio)
    THEN FMul(FDiv(diferencia, precio), Num(100))
    ELSE None

SafetyMargin(valor_por_accion, precio) ==
    IF ~IsNone(valor_por_accion) /\ Truthy(precio)
    THEN LET q == FDiv(FSub(valor_por_accion, precio), valor_por_accion)
         IN  IF q = ZeroDivisionError THEN None ELSE q
    ELSE None

(* "cumple" of the Safety Margin filter:
   isinstance(safety_margin, (int, float)) and safety_margin > 0 *)
CumpleSafetyMargin(safety_margin) ==
    IsNum(safety_margin) /\ FGt(safety_margin, Num(0))

MAX_NEWS_ITEMS == 18

(* obtener_noticias_fmp is called when yfinance gave fewer than
   MAX_NEWS_ITEMS usable news items *)
ConsultaNoticiasFmp(noticias_yf) == noticias_yf < MAX_NEWS_ITEMS

ValorTerminal(valor_total, fcf_proyectado, wacc) ==
    IF IsNone(valor_total) THEN None
    ELSE LET fcf_final == IF fcf_proyectado # <<>>
                          THEN fcf_proyectado[Len(fcf_proyectado)]
                          ELSE Num(0)
         IN  IF FGt(wacc, Num(0)) /\ FLt(crecimiento_largo_plazo, wacc)
             THEN FDiv(FMul(fcf_final, FAdd(Num(1), crecimiento_largo_plazo)),
                       FSub(wacc, crecimiento_largo_plazo))
             ELSE None

(* the comparisons made with >= and <= *)
EstadoConIgual(valor_por_accion, precio) ==
    IF ~IsNone(valor_por_accion) /\ Truthy(precio)
    THEN IF FGe(valor_por_accion, FMul(precio, UmbralSubvaluada)) THEN "SUBVALUADA"
         ELSE IF FLe(valor_por_accion, FMul(precio, UmbralSobrevaluada)) THEN "SOBREVALUADA"
         ELSE "RAZONABLE"
    ELSE "None"

(* estado; the text "None" stands for the value None *)
Estado(valor_por_accion, precio) ==
    IF ~IsNone(valor_por_accion) /\ Truthy(precio)
    THEN IF FGt(valor_por_accion, FMul(precio, UmbralSubvaluada)) THEN "SUBVALUADA"
         ELSE IF FLt(valor_por_accion, FMul(precio, UmbralSobrevaluada)) THEN "SOBREVALUADA"
         ELSE "RAZONABLE"
    ELSE "None"

(* the capital inputs of the valuation.  yf: what yfinance gives for the
   ticker (info, last close, long term debt, free cash flow row, rates
   derived from its statements); fred: the outcome of the request to FRED *)
CostoDeCapital(tax_rate_override, cost_of_debt_override, yf, fred) ==
    LET beta == to_float(yf.beta, DefaultBeta)
        tax_rate_info == to_float(yf.effectiveTaxRate, DefaultTaxRate)
        cost_of_debt_info == to_float(yf.yield, DefaultCostOfDebt)
        tax_rate == ConOverride(tax_rate_info, tax_rate_override)
        cost_of_debt == ConOverride(cost_of_debt_info, cost_of_debt_override)
        acciones == to_float(yf.sharesOutstanding, Num(0))
        precio == to_float(yf.close, Num(0))
        equity == FMul(acciones, precio)
        debt == to_float(yf.deuda, Num(0))
        tasa_rf == obtener_tasa_libre_riesgo(fred)
        market_return == Rat(2, 25)
    IN  [beta |-> beta,
         tasa_impositiva |-> tax_rate,
         cost_of_debt |-> cost_of_debt,
         acciones |-> acciones,
         precio_actual |-> precio,
         market_cap |-> equity,
         deuda |-> debt,
         tasa_rf |-> tasa_rf,
         capm |-> Capm(tasa_rf, beta, market_return),
         wacc |-> calcular_wacc(beta, debt, equity, cost_of_debt, tax_rate,
                                tasa_rf, DefaultMarketReturn)]

analizar_empresa(metodo_crecimiento, crecimiento, avg_growth_rate, fcf_historial, tax_rate_override, cost_of_debt_override, yf, fred) ==
    LET capital == CostoDeCapital(tax_rate_override, cost_of_debt_override, yf, fred)
        acciones == capital.acciones
        precio == capital.precio_actual
        debt == capital.deuda
        wacc == capital.wacc
        fcf == IF fcf_historial # <<>> THEN FcfDeHistorial(fcf_historial)
               ELSE yf.cashflow
        fcf_actual == FcfActual(fcf)
        tasa_crecimiento ==
            TasaCrecimiento(metodo_crecimiento, crecimiento, avg_growth_rate)
        fcf_proyectado == proyectar_fcf(fcf_actual, tasa_crecimiento, DefaultAnios)
        valor_total ==
            calcular_valor_intrinseco(fcf_proyectado, wacc, DefaultCrecimientoPerpetuo)
        equity_value == EquityValue(valor_total, debt)
        valor_por_accion == ValorPorAccion(equity_value, acciones)
        diferencia == Diferencia(valor_por_accion, precio)
    IN  capital @@
        [raised |-> IF IsExc(valor_total) THEN valor_total ELSE None,
         valor_intrinseco |-> valor_por_accion,
         diferencia |-> diferencia,
         diferencia_pct |-> DiferenciaPct(diferencia, precio),
         estado |-> Estado(valor_por_accion, precio),
         metodo_crecimiento |->
             IF metodo_crecimiento = "2" THEN "Promedio" ELSE "CAGR",
         crecimiento |-> tasa_crecimiento,
         fcf_actual |-> fcf_actual,
         fcf_proyectado |-> fcf_proyectado,
         valor_total |-> valor_total,
         equity_value |-> equity_value,
         valor_terminal |-> ValorTerminal(valor_total, fcf_proyectado, wacc),
         safety_margin |-> SafetyMargin(valor_por_accion, precio),
         safety_margin_cumple |->
             CumpleSafetyMargin(SafetyMargin(valor_por_accion, precio)),
         noticias_fmp_consultadas |-> ConsultaNoticiasFmp(yf.noticias)]

-----------------------------------------------------------------------------
(* DCF_Main.ejecutar_dcf *)

(* crecimiento_aplicado: float(growth_override) under the CAGR method, the
   detected CAGR when there is no override or float() rejects it *)
CrecimientoAplicado(metodo, growth_override, crecimiento) ==
    IF metodo = "1" /\ ~IsNone(growth_override)
    THEN (IF IsNum(growth_override) THEN growth_override ELSE crecimiento)
    ELSE crecimiento

(* the rate computed from the statements of FMP, else of yfinance, else None *)
MetricaOverride(metrica_fmp, metrica_yf) ==
    IF ~IsNone(metrica_fmp) THEN metrica_fmp ELSE metrica_yf

(* metricas_yf[1], metricas_yf[3]: the dictionary of yearly samples is
   non-empty exactly when its mean, tasa_promedio or costo_promedio, exists *)
HayMuestras(promedio) == ~IsNone(promedio)

(* the message "se uso el valor predeterminado del 25%" (resp. "del 5%") is
   appended when no override was resolved, the yfinance statements were
   read and they gave samples *)
MensajePredeterminado(override, metricas_yf_leidas, promedio_yf) ==
    IsNone(override) /\ metricas_yf_leidas /\ HayMuestras(promedio_yf)

(* str.lower() of the source names of the model *)
Minusculas(texto) ==
    CASE texto = "FMP" -> "fmp"
      [] texto = "Auto" -> "auto"
      [] OTHER -> texto

(* (fuente or "auto").lower() *)
FuenteSolicitada(fuente) == Minusculas(IF fuente = "" THEN "auto" ELSE fuente)

(* a second message appended when FMP failed with an error and "fmp" was asked *)
MensajesFallbackDobles(fuente_solicitada, fuente_utilizada, fmp_error) ==
    IF fuente_utilizada # "fmp" /\ fuente_solicitada \in {"auto", "fmp"}
    THEN IF fmp_error THEN <<"fmp: error", "fmp: sin datos">> ELSE <<"fmp: sin datos">>
    ELSE <<>>

(* the messages appended to mensajes_fuente when FMP was asked for and
   yfinance was used, named by the source asked for and by the cause *)
MensajesFallback(fuente_solicitada, fuente_utilizada, fmp_error) ==
    IF fuente_utilizada # "fmp" /\ fuente_solicitada \in {"auto", "fmp"}
    THEN IF fuente_solicitada = "fmp"
         THEN (IF fmp_error THEN <<"fmp: error">> ELSE <<"fmp: sin datos">>)
         ELSE (IF fmp_error THEN <<"auto: error">> ELSE <<"auto: sin datos">>)
    ELSE <<>>

(* fmp: what FMP answers for the ticker: error when the request for the
   history raises FMPClientError, else the history (empty: no data) *)
ejecutar_dcf(metodo, fuente, growth_override, fmp, yf, fred) ==
    LET fuente_solicitada == FuenteSolicitada(fuente)
        usar_fmp == fuente_solicitada \in {"auto", "fmp"}
        fmp_error == usar_fmp /\ fmp.error
        fcf_historial == IF usar_fmp /\ ~fmp.error
                         THEN obtener_fcf_historico(fmp.fcf_historial)
                         ELSE <<>>
        fuente_utilizada == IF fcf_historial # <<>> THEN "fmp" ELSE "yfinance"
        metricas_fmp == IF usar_fmp THEN [tax_rate |-> fmp.tax_rate,
                                          cost_of_debt |-> fmp.cost_of_debt]
                        ELSE [tax_rate |-> None, cost_of_debt |-> None]
        valores_para_crecimiento ==
            IF fuente_utilizada = "fmp"
            THEN [i \in 1..Len(fcf_historial) |-> fcf_historial[i].value]
            ELSE yf.cashflow
        fcf_historial_pasado == IF fuente_utilizada = "fmp" THEN fcf_historial ELSE <<>>
        tax_rate_override == MetricaOverride(metricas_fmp.tax_rate, yf.tasa_promedio)
        cost_of_debt_override ==
            MetricaOverride(metricas_fmp.cost_of_debt, yf.costo_promedio)
        metricas_yf_leidas ==
            IsNone(metricas_fmp.tax_rate) \/ IsNone(metricas_fmp.cost_of_debt)
        crecimientos ==
            calcular_crecimientos([kind |-> "list", items |-> valores_para_crecimiento])
        crecimiento == crecimientos[1]
        avg_growth_rate == crecimientos[2]
        crecimiento_aplicado == CrecimientoAplicado(metodo, growth_override, crecimiento)
        resultado ==
            analizar_empresa(metodo, crecimiento_aplicado, avg_growth_rate,
                             fcf_historial_pasado,
                             tax_rate_override, cost_of_debt_override, yf, fred)
    IN  resultado @@
        [fuente_datos |-> fuente_utilizada,
         fuente_solicitada |-> fuente_solicitada,
         mensajes_fallback |->
             MensajesFallback(fuente_solicitada, fuente_utilizada, fmp_error),
         llamadas_fmp |->
             (IF usar_fmp
              THEN {"fcf_historico", "metricas_financieras", "crecimiento_analistas"}
              ELSE {})
                 \cup (IF resultado.noticias_fmp_consultadas THEN {"noticias"} ELSE {}),
         fcf_historial |-> fcf_historial_pasado,
         crecimiento_detectado |-> crecimiento,
         crecimiento_utilizado |-> crecimiento_aplicado,
         crecimiento_promedio |-> avg_growth_rate,
         tax_rate_override |-> tax_rate_override,
         cost_of_debt_override |-> cost_of_debt_override,
         mensaje_tasa_predeterminada |->
            MensajePredeterminado(tax_rate_override, metricas_yf_leidas, yf.tasa_promedio),
         mensaje_costo_predeterminado |->
            MensajePredeterminado(cost_of_debt_override, metricas_yf_leidas, yf.costo_promedio)]

-----------------------------------------------------------------------------
(* inputs *)

MaxHorizon == 4
MaxLen == 3
MaxProj == 2

FcfActualValues == {Num(-100), Num(-1), Num(0), Num(1), Num(100)}
GrowthRates == {Rat(-1, 2), Num(0), Rat(1, 20), Rat(1, 10), Num(1), Num(2)}
Horizons == -1..MaxHorizon

SeriesValues == {None, NaN, PInf, NInf, Num(-2), Num(0), Num(1), Num(2), Num(8)}
SeriesItems == UNION {[1..n -> SeriesValues] : n \in 0..MaxLen}
SeriesInputs ==
    {[kind |-> "None", items |-> <<>>]}
        \cup {[kind |-> k, items |-> s] : k \in {"list", "Series"}, s \in SeriesItems}

ProjValues == {Num(-2), Num(0), Num(1), Num(3)}
Projections == UNION {[1..n -> ProjValues] : n \in 0..MaxProj}
Waccs ==
    {Rat(-1, 100), Num(0), Rat(1, 400), Rat(1, 100), Rat(1, 50), Rat(1, 40),
     Rat(1, 10), PInf, NInf, NaN}
PerpetuityRates ==
    {Rat(-1, 100), Num(0), Rat(3, 400), Rat(1, 50), Rat(1, 10), PInf, NaN}

Betas == {Num(0), Num(1), Rat(3, 2), NaN}
Debts == {Num(-100), Num(0), Num(100), Num(300)}
Equities == {Num(0), Num(100), Num(1000), PInf}
CostsOfDebt == {Num(0), Rat(1, 20), Rat(1, 10), PInf}
TaxRates == {Num(0), Rat(1, 4), Num(1), NaN}
RiskFreeRates == {Rat(1, 25), DefaultRiskFreeRate}
MarketReturns == {DefaultMarketReturn, Rat(1, 10)}

(* what the providers can answer for a ticker *)
FredResponses ==
    {[status |-> "error", observations |-> <<>>],
     [status |-> "ok", observations |-> <<>>],
     [status |-> "ok", observations |-> <<SinDato>>],
     [status |-> "ok", observations |-> <<NoNumerico>>],
     [status |-> "ok", observations |-> <<Num(4)>>],
     [status |-> "ok", observations |-> <<SinDato, Num(4)>>]}

Prices == {Num(0), Num(10), Num(20), Num(30), NaN}
(* the prices at which a value of 781/40 per share is 1.1 and 0.9 times the price *)
ThresholdPrices == {Rat(71, 4), Rat(781, 36)}
Histories ==
    {<<>>, <<Num(1)>>, <<Num(11), Num(10)>>, <<Num(2), Num(1), Num(2)>>,
     <<Num(0), Num(0)>>, <<Num(-2), Num(-1)>>, <<Num(1), Num(-1)>>}
Cashflows == {<<>>, <<Num(1), Num(1)>>}
UltimoAnio == 2024

(* the values as FMP dates them: one year each, the most recent first *)
ConAnios(valores) ==
    [i \in 1..Len(valores) |-> FCFEntry(Num(UltimoAnio + 1 - i), valores[i])]

(* answers of FMP that are not in order, repeat a year or lack the year *)
HistoriasDesordenadas ==
    {<<FCFEntry(Num(2023), Num(10)), FCFEntry(Num(2024), Num(11))>>,
     <<FCFEntry(None, Num(10)), FCFEntry(Num(2024), Num(11))>>,
     <<FCFEntry(None, Num(2)), FCFEntry(Num(2023), Num(1)), FCFEntry(Num(2024), Num(2))>>,
     <<FCFEntry(Num(2024), Num(1)), FCFEntry(Num(2024), Num(-1))>>,
     <<FCFEntry(None, Num(-2)), FCFEntry(None, Num(-1))>>,
     <<FCFEntry(Num(0), Num(10)), FCFEntry(Num(2024), Num(11))>>}
GrowthOverrides == {None, Rat(1, 10), NaN, PInf, NoNumerico}
Metodos == {"1", "2"}

(* a ticker for which yfinance knows ten shares at a price of 10 and nothing
   else, and FMP derives no rate from its statements *)
YfBase ==
    [beta |-> None, effectiveTaxRate |-> None, yield |-> None,
     sharesOutstanding |-> Num(10), close |-> Num(10), deuda |-> None,
     cashflow |-> <<>>, tasa_promedio |-> None, costo_promedio |-> None,
     noticias |-> MAX_NEWS_ITEMS]
FmpRatesNone == [tax_rate |-> None, cost_of_debt |-> None]
FredOk == [status |-> "ok", observations |-> <<Num(4)>>]
FredOutcomes ==
    {[status |-> "error", observations |-> <<>>],
     [status |-> "ok", observations |-> <<SinDato>>],
     FredOk}

(* The capital structures.  Five discounted years stay inside the integers
   of the model when the WACC is 10%; every structure below has a WACC of
   10%, of 0 or nan. *)

(* no debt, beta 1.5 and a risk-free rate of 4%: CAPM = WACC = 10% *)
SinDeuda ==
    {[rates |-> FmpRatesNone, fred |-> FredOk,
      yf |-> [YfBase EXCEPT !.beta = Rat(3, 2), !.sharesOutstanding = n,
                            !.close = p,
                            !.effectiveTaxRate = i[1], !.yield = i[2]]] :
        n \in {None, Num(0), Num(10)}, p \in Prices,
        i \in {<<None, None>>, <<Num(0), Rat(1, 10)>>, <<NoNumerico, NoNumerico>>}}

(* as much debt as equity, beta 1 and a 16% cost of debt taxed at 25% *)
Apalancada ==
    {[rates |-> [tax_rate |-> t, cost_of_debt |-> Rat(4, 25)], fred |-> f,
      yf |-> [YfBase EXCEPT !.beta = b, !.deuda = Num(100), !.tasa_promedio = y]] :
        b \in {None, Num(1)}, t \in {None, Rat(1, 4)}, y \in {None, Rat(1, 4)},
        f \in FredOutcomes}

(* debt only: no shares or no price, an untaxed 10% cost of debt *)
SoloDeuda ==
    {[rates |-> FmpRatesNone, fred |-> f,
      yf |-> [YfBase EXCEPT !.sharesOutstanding = e[1], !.close = e[2],
                            !.deuda = Num(100),
                            !.effectiveTaxRate = t[1], !.tasa_promedio = t[2],
                            !.yield = c[1], !.costo_promedio = c[2]]] :
        e \in {<<None, Num(0)>>, <<None, Num(10)>>, <<Num(0), Num(0)>>,
                <<Num(0), Num(10)>>, <<Num(10), Num(0)>>},
        t \in {<<Num(0), None>>, <<None, Num(0)>>},
        c \in {<<Rat(1, 10), None>>, <<None, Rat(1, 10)>>},
        f \in FredOutcomes}

(* no debt again, at the prices where the classification changes *)
EnElUmbral ==
    {[rates |-> FmpRatesNone, fred |-> FredOk,
      yf |-> [YfBase EXCEPT !.beta = Rat(3, 2), !.close = p]] :
        p \in ThresholdPrices}

(* a beta that is not a number, with and without debt *)
BetaInvalida ==
    {[rates |-> FmpRatesNone, fred |-> FredOk,
      yf |-> [YfBase EXCEPT !.beta = NaN, !.deuda = d]] : d \in {None, Num(100)}}

(* debt only at an untaxed cost of 1/41: a WACC between the long-term growth
   of 2% and 2.5%, where wacc - 0.005 is the growth of the terminal value *)
WaccEstrecho ==
    {[rates |-> FmpRatesNone, fred |-> FredOk,
      yf |-> [YfBase EXCEPT !.sharesOutstanding = e[1], !.close = e[2],
                            !.deuda = Num(100),
                            !.tasa_promedio = Num(0),
                            !.costo_promedio = Rat(1, 41)]] :
        e \in {<<None, Num(10)>>, <<Num(10), Num(0)>>}}

(* a history growing at 1/41 a year: each flow discounted at that WACC is
   the same fraction, so the five years stay inside the integers *)
HistoriaWaccEstrecho == <<Rat(1681, 1764), Rat(68921, 74088)>>

Capitales == SinDeuda \cup Apalancada \cup SoloDeuda \cup BetaInvalida

(* the free cash flow history: from FMP when it has one, else the yfinance row *)
Fuentes ==
    {[fcf_historial |-> ConAnios(h), cashflow |-> <<>>] : h \in Histories \ {<<>>}}
        \cup {[fcf_historial |-> <<>>, cashflow |-> c] : c \in Cashflows}

Ticker(k, s) ==
    [fmp |-> [error |-> FALSE, fcf_historial |-> s.fcf_historial,
              tax_rate |-> k.rates.tax_rate, cost_of_debt |-> k.rates.cost_of_debt],
     yf |-> [k.yf EXCEPT !.cashflow = s.cashflow],
     fred |-> k.fred]

Tickers ==
    {Ticker(k, s) : k \in Capitales, s \in Fuentes}
        \cup {Ticker(k, [fcf_historial |-> ConAnios(<<Num(11), Num(10)>>),
                         cashflow |-> <<>>]) : k \in EnElUmbral}
        \cup {Ticker(k, [fcf_historial |-> h, cashflow |-> <<>>]) :
                  k \in {c \in SinDeuda : c.yf.sharesOutstanding = Num(10)
                                             /\ c.yf.close = Num(10)},
                  h \in HistoriasDesordenadas}

TickersWaccEstrecho ==
    {Ticker(k, [fcf_historial |-> ConAnios(HistoriaWaccEstrecho), cashflow |-> <<>>]) :
         k \in WaccEstrecho}

(* views.dcf_view passes no growth override *)
OverridesDe(t) == IF t \in TickersWaccEstrecho THEN {None} ELSE GrowthOverrides

(* the source asked for: dcf_view passes "auto", "fmp" or "yfinance",
   dcf_pdf_view the parameter of the request as it came *)
FuentesSolicitadas == {"", "auto", "fmp", "yfinance", "FMP", "otra"}

(* tickers for which FMP fails or answers, and yfinance has all the news or none *)
TickersFuente ==
    {[t EXCEPT !.fmp.error = e, !.yf.noticias = n] :
        t \in {Ticker([rates |-> FmpRatesNone, fred |-> FredOk,
                       yf |-> [YfBase EXCEPT !.beta = Rat(3, 2)]], s) : s \in Fuentes},
        e \in BOOLEAN, n \in {0, MAX_NEWS_ITEMS}}

FuentesDe(t) == IF t \in TickersFuente THEN FuentesSolicitadas ELSE {"auto"}

(* the income statements of a ticker: tax expense and pre-tax income of a
   year (a ratio of 0.3, 0, 1.49, 1.5 or 2, a zero or missing income, a
   missing or non-numeric tax), and its interest expense *)
MaxStatements == 2
StatementYears == {None, Num(2023), Num(2024)}
TaxFigures ==
    {<<Num(30), Num(100)>>, <<Num(-30), Num(-100)>>, <<Num(0), Num(100)>>,
     <<Num(149), Num(100)>>, <<Num(150), Num(100)>>, <<Num(200), Num(100)>>,
     <<Num(30), Num(0)>>, <<Num(30), None>>, <<None, Num(100)>>,
     <<NaN, Num(100)>>, <<Num(30), NaN>>, <<Num(30), PInf>>,
     <<NoNumerico, Num(100)>>}
IncomeStatement(year, figures, interes) ==
    [year |-> year, impuesto |-> figures[1], ingreso_pre_impuesto |-> figures[2],
     interes |-> interes]
IncomeStatements ==
    {IncomeStatement(y, f, None) : y \in StatementYears, f \in TaxFigures}
        \cup {IncomeStatement(y, <<Num(30), Num(100)>>, i) :
                  y \in StatementYears, i \in {Num(-5), Num(0)}}
(* the statements before the two latest ones *)
IncomeStatementsAnteriores ==
    {IncomeStatement(Num(2022), <<Num(30), Num(100)>>, None),
     IncomeStatement(Num(2022), <<Num(200), Num(100)>>, Num(0)),
     IncomeStatement(None, <<Num(0), Num(100)>>, None)}
IncomeHistories ==
    UNION {IF n <= 2
           THEN [1..n -> IncomeStatements]
           ELSE {h \o t : h \in [1..2 -> IncomeStatements],
                          t \in [1..(n - 2) -> IncomeStatementsAnteriores]} :
           n \in 0..MaxStatements}
BalanceSheet(year, total_debt, short_debt, long_debt) ==
    [year |-> year, total_debt |-> total_debt, short_debt |-> short_debt,
     long_debt |-> long_debt]
BalanceHistories ==
    {<<>>,
     <<BalanceSheet(Num(2024), Num(-100), None, None),
       BalanceSheet(Num(2023), None, Num(40), Num(60))>>,
     <<BalanceSheet(Num(2024), Num(0), Num(40), Num(60)),
       BalanceSheet(None, Num(100), None, None)>>}

-----------------------------------------------------------------------------
(* views.dcf_view and views._guardar_analisis: the stored analyses *)

(* the window of a recent record, in minutes; the clock counts minutes *)
VentanaReciente == 5
MaxReloj == 6
MaxRegistros == 2
NumRequests == 2
Requests == 1..NumRequests

(* the tickers asked for and what the data sources hold of them: one valued
   from its FMP history, one without free cash flow data; their values,
   prices and differences are finite *)
Mercado ==
    LET k == [rates |-> FmpRatesNone, fred |-> FredOk,
              yf |-> [YfBase EXCEPT !.beta = Rat(3, 2)]]
    IN  {[ticker |-> "AAA",
          datos |-> Ticker(k, [fcf_historial |-> ConAnios(<<Num(11), Num(10)>>),
                               cashflow |-> <<>>])],
         [ticker |-> "BBB",
          datos |-> Ticker(k, [fcf_historial |-> <<>>, cashflow |-> <<>>])]}

(* Decimal(str(value)).quantize(Decimal("1." + "0" * places), ROUND_HALF_UP):
   the nearest multiple of 10^-places, a tie away from zero *)
to_decimal(value, places) ==
    IF value = None
    THEN None
    ELSE LET quant == 10 ^ places
             escala == AbsInt(value[1]) * quant
             cociente == (2 * escala + value[2]) \div (2 * value[2])
         IN  Rat(SignOf(value) * cociente, quant)

(* what _guardar_analisis reads of the result of ejecutar_dcf *)
ResultadoGuardado(resultado) ==
    [fuente_datos |-> resultado.fuente_datos,
     valor_intrinseco |-> resultado.valor_intrinseco,
     precio_actual |-> resultado.precio_actual,
     diferencia_pct |-> resultado.diferencia_pct,
     estado |-> resultado.estado]

(* the fields the filter of the duplicate query compares *)
CamposFiltro(ticker, metodo, resultado) ==
    [ticker |-> ticker,
     metodo |-> metodo,
     fuente_utilizada |-> resultado.fuente_datos,
     valor_intrinseco |-> to_decimal(resultado.valor_intrinseco, 4),
     precio_actual |-> to_decimal(resultado.precio_actual, 4),
     diferencia_pct |-> to_decimal(resultado.diferencia_pct, 2)]

(* a row of AnalysisRecord; created_at is the time of the insert *)
AnalysisRecord(campos, fuente_solicitada, estado, created_at) ==
    [campos |-> campos, fuente_solicitada |-> fuente_solicitada,
     estado |-> estado, created_at |-> created_at]

(* AnalysisRecord.objects.filter(..., created_at__gte=ventana_reciente).exists() *)
Duplicado(registros, campos, ahora) ==
    LET ventana_reciente == ahora - VentanaReciente
    IN  \E i \in 1..Len(registros) :
            /\ registros[i].campos = campos
            /\ registros[i].created_at >= ventana_reciente

(* a request slot of the server: free, about to query, about to insert,
   finished with what _guardar_analisis returned (a row or None), or
   finished with the error of ejecutar_dcf *)
RequestLibre ==
    [pc |-> "libre", ticker |-> "", metodo |-> "", fuente |-> "",
     resultado |-> None, creado |-> FALSE]
EnCurso == {r \in Requests : requests[r].pc \in {"guardar", "crear"}}

-----------------------------------------------------------------------------
(* the calls: a caller invokes one engine function and takes its result *)

Init ==
    /\ fn = "idle"
    /\ args = <<>>
    /\ ret = None
    /\ now = 0
    /\ analysis_records = <<>>
    /\ requests = [r \in Requests |-> RequestLibre]

CallProyectarFcf ==
    /\ fn = "idle"
    /\ UNCHANGED persistencia
    /\ \E f \in FcfActualValues, g \in GrowthRates, a \in Horizons :
        /\ fn' = "proyectar_fcf"
        /\ args' = [fcf_actual |-> f, tasa_crecimiento |-> g, anios |-> a]
        /\ ret' = proyectar_fcf(f, g, a)

CallProyectarFcfDefault ==
    /\ fn = "idle"
    /\ UNCHANGED persistencia
    /\ \E f \in FcfActualValues, g \in GrowthRates :
        /\ fn' = "proyectar_fcf"
        /\ args' = [fcf_actual |-> f, tasa_crecimiento |-> g, anios |-> DefaultAnios]
        /\ ret' = proyectar_fcf(f, g, DefaultAnios)

CallCalcularCrecimientos ==
    /\ fn = "idle"
    /\ UNCHANGED persistencia
    /\ \E s \in SeriesInputs :
        /\ fn' = "calcular_crecimientos"
        /\ args' = [fcf_series |-> s]
        /\ ret' = calcular_crecimientos(s)

CallCalcularValorIntrinseco ==
    /\ fn = "idle"
    /\ UNCHANGED persistencia
    /\ \E p \in Projections, w \in Waccs, g \in PerpetuityRates :
        /\ fn' = "calcular_valor_intrinseco"
        /\ args' = [fcf_proyectado |-> p, wacc |-> w, crecimiento_perpetuo |-> g]
        /\ ret' = calcular_valor_intrinseco(p, w, g)

CallCalcularValorIntrinsecoDefault ==
    /\ fn = "idle"
    /\ UNCHANGED persistencia
    /\ \E p \in Projections, w \in Waccs :
        /\ fn' = "calcular_valor_intrinseco"
        /\ args' = [fcf_proyectado |-> p, wacc |-> w,
                    crecimiento_perpetuo |-> DefaultCrecimientoPerpetuo]
        /\ ret' = calcular_valor_intrinseco(p, w, DefaultCrecimientoPerpetuo)

CallCalcularWacc ==
    /\ fn = "idle"
    /\ UNCHANGED persistencia
    /\ \E b \in Betas, d \in Debts, e \in Equities, c \in CostsOfDebt,
          t \in TaxRates, r \in RiskFreeRates, m \in MarketReturns :
        /\ fn' = "calcular_wacc"
        /\ args' = [beta |-> b, debt |-> d, equity |-> e, cost_of_debt |-> c,
                    tax_rate |-> t, risk_free_rate |-> r, market_return |-> m]
        /\ ret' = calcular_wacc(b, d, e, c, t, r, m)

CallObtenerTasaLibreRiesgo ==
    /\ fn = "idle"
    /\ UNCHANGED persistencia
    /\ \E r \in FredResponses :
        /\ fn' = "obtener_tasa_libre_riesgo"
        /\ args' = [response |-> r]
        /\ ret' = obtener_tasa_libre_riesgo(r)

CallObtenerMetricasFinancieras ==
    /\ fn = "idle"
    /\ UNCHANGED persistencia
    /\ \E i \in IncomeHistories, b \in BalanceHistories :
        /\ fn' = "obtener_metricas_financieras"
        /\ args' = [income_statements |-> i, balance_statements |-> b]
        /\ ret' = obtener_metricas_financieras(i, b)

CallObtenerMetricasYfinance ==
    /\ fn = "idle"
    /\ UNCHANGED persistencia
    /\ \E i \in IncomeHistories, b \in BalanceHistories :
        /\ fn' = "_obtener_metricas_yfinance"
        /\ args' = [financials |-> i, balance |-> b]
        /\ ret' = obtener_metricas_yfinance(i, b)

CallEjecutarDcf ==
    /\ fn = "idle"
    /\ UNCHANGED persistencia
    /\ \E t \in Tickers \cup TickersWaccEstrecho \cup TickersFuente, m \in Metodos :
       \E f \in FuentesDe(t), g \in OverridesDe(t) :
        /\ fn' = "ejecutar_dcf"
        /\ args' = [metodo |-> m, fuente |-> f, growth_override |-> g,
                    fmp |-> t.fmp, yf |-> t.yf, fred |-> t.fred]
        /\ ret' = ejecutar_dcf(m, f, g, t.fmp, t.yf, t.fred)

Return ==
    /\ fn # "idle"
    /\ UNCHANGED persistencia
    /\ fn' = "idle"
    /\ args' = <<>>
    /\ ret' = None

Next ==
    \/ CallProyectarFcf
    \/ CallProyectarFcfDefault
    \/ CallCalcularCrecimientos
    \/ CallCalcularValorIntrinseco
    \/ CallCalcularValorIntrinsecoDefault
    \/ CallCalcularWacc
    \/ CallObtenerTasaLibreRiesgo
    \/ CallObtenerMetricasFinancieras
    \/ CallObtenerMetricasYfinance
    \/ CallEjecutarDcf
    \/ Return

Spec == Init /\ [][Next]_vars

-----------------------------------------------------------------------------
(* the analysis requests: each runs dcf_view on its own thread or process,
   and the database is what they share *)

(* dcf_view up to the call of _guardar_analisis: the analysis ran, or
   ejecutar_dcf raised and nothing is saved *)
Solicitar(r) ==
    /\ requests[r].pc = "libre"
    /\ Len(analysis_records) + Cardinality(EnCurso) < MaxRegistros
    /\ \E c \in Mercado, metodo \in Metodos, falla \in BOOLEAN :
        requests' = [requests EXCEPT ![r] =
            IF falla
            THEN [RequestLibre EXCEPT !.pc = "error", !.ticker = c.ticker,
                                      !.metodo = metodo, !.fuente = "auto"]
            ELSE [pc |-> "guardar", ticker |-> c.ticker, metodo |-> metodo,
                  fuente |-> "auto",
                  resultado |-> ResultadoGuardado(
                      ejecutar_dcf(metodo, "auto", None,
                                   c.datos.fmp, c.datos.yf, c.datos.fred)),
                  creado |-> FALSE]]
    /\ UNCHANGED <<now, analysis_records>>
    /\ UNCHANGED motor

(* _guardar_analisis up to the duplicate query and its early returns *)
Consultar(r) ==
    /\ requests[r].pc = "guardar"
    /\ LET q == requests[r]
           duplicado == Duplicado(analysis_records,
                                  CamposFiltro(q.ticker, q.metodo, q.resultado), now)
       IN  requests' = [requests EXCEPT ![r].pc =
               IF q.ticker = "" \/ duplicado THEN "hecho" ELSE "crear"]
    /\ UNCHANGED <<now, analysis_records>>
    /\ UNCHANGED motor

(* AnalysisRecord.objects.create(...) *)
Crear(r) ==
    /\ requests[r].pc = "crear"
    /\ LET q == requests[r]
       IN  analysis_records' = Append(analysis_records,
               AnalysisRecord(CamposFiltro(q.ticker, q.metodo, q.resultado),
                              q.fuente, q.resultado.estado, now))
    /\ requests' = [requests EXCEPT ![r].pc = "hecho", ![r].creado = TRUE]
    /\ UNCHANGED now
    /\ UNCHANGED motor

(* the response is sent and the slot is free again *)
Responder(r) ==
    /\ requests[r].pc \in {"hecho", "error"}
    /\ requests' = [requests EXCEPT ![r] = RequestLibre]
    /\ UNCHANGED <<now, analysis_records>>
    /\ UNCHANGED motor

(* a minute passes *)
Tic ==
    /\ now < MaxReloj
    /\ now' = now + 1
    /\ UNCHANGED <<analysis_records, requests>>
    /\ UNCHANGED motor

NextGuardar ==
    \/ \E r \in Requests : Solicitar(r)
    \/ \E r \in Requests : Consultar(r)
    \/ \E r \in Requests : Crear(r)
    \/ \E r \in Requests : Responder(r)
    \/ Tic

SpecGuardar == Init /\ [][NextGuardar]_vars

(* the same server answering one request at a time *)
SolicitarSola(r) ==
    /\ \A s \in Requests : requests[s].pc = "libre"
    /\ Solicitar(r)

NextGuardarSecuencial ==
    \/ \E r \in Requests : SolicitarSola(r)
    \/ \E r \in Requests : Consultar(r)
    \/ \E r \in Requests : Crear(r)
    \/ \E r \in Requests : Responder(r)
    \/ Tic

SpecGuardarSecuencial == Init /\ [][NextGuardarSecuencial]_vars

-----------------------------------------------------------------------------
(* properties of calcular_valor_intrinseco *)

IsCVI == fn = "calcular_valor_intrinseco"

(* min(perpetuity_growth, wacc - 0.005) *)
AdjustedGrowth == FMin(args.crecimiento_perpetuo, FSub(args.wacc, Rat(5, 1000)))

(* C1: calcular_valor_intrinseco returns None, neither a number nor an
   exception, whenever the projection is empty, or wacc <= 0, or
   wacc <= perpetuity_growth, or min(perpetuity_growth, wacc - 0.005) < 0. *)
C1_NoneWhenUndefined ==
    IsCVI =>
        ((\/ args.fcf_proyectado = <<>>
          \/ FLe(args.wacc, Num(0))
          \/ FLe(args.wacc, args.crecimiento_perpetuo)
          \/ FLt(AdjustedGrowth, Num(0)))
            => ret = None)

(* a positive wacc above a non-negative perpetuity growth whose adjusted
   growth is negative: None was returned *)
C1_Witness ==
    /\ IsCVI
    /\ args.fcf_proyectado # <<>>
    /\ FGt(args.wacc, Num(0))
    /\ FGt(args.wacc, args.crecimiento_perpetuo)
    /\ FGe(args.crecimiento_perpetuo, Num(0))
    /\ FLt(AdjustedGrowth, Num(0))
    /\ ret = None

(* C2, as stated: for a non-empty projection, wacc <= 0 or
   perpetuity_growth >= wacc - 0.005 makes calcular_valor_intrinseco
   return None. *)
C2_NoneWithinMargin ==
    (IsCVI /\ args.fcf_proyectado # <<>>) =>
        ((\/ FLe(args.wacc, Num(0))
          \/ FGe(args.crecimiento_perpetuo, FSub(args.wacc, Rat(5, 1000))))
            => ret = None)

(* C2, amended: for a non-empty projection, wacc <= 0 or
   perpetuity_growth >= wacc makes calcular_valor_intrinseco return None
   (a perpetuity growth in [wacc - 0.005, wacc) is clamped, not rejected). *)
C2_NoneAtOrAboveWacc ==
    (IsCVI /\ args.fcf_proyectado # <<>>) =>
        ((FLe(args.wacc, Num(0)) \/ FGe(args.crecimiento_perpetuo, args.wacc))
            => ret = None)

(* the perpetuity growth equals a positive wacc: None was returned *)
C2_Witness ==
    /\ IsCVI
    /\ args.fcf_proyectado # <<>>
    /\ FGt(args.wacc, Num(0))
    /\ FEq(args.crecimiento_perpetuo, args.wacc)
    /\ ret = None

(* sum_{i=1..k} fcf_i / (1 + wacc)^i *)
RECURSIVE PresentValue(_, _, _)
PresentValue(fcfs, wacc, k) ==
    IF k = 0 THEN Num(0)
    ELSE FAdd(PresentValue(fcfs, wacc, k - 1),
              FDiv(fcfs[k], FPowInt(FAdd(Num(1), wacc), k)))

(* (fcf_N * (1 + g) / (wacc - g)) / (1 + wacc)^N *)
TerminalPresentValue(fcfs, wacc, g) ==
    FDiv(FDiv(FMul(fcfs[Len(fcfs)], FAdd(Num(1), g)), FSub(wacc, g)),
         FPowInt(FAdd(Num(1), wacc), Len(fcfs)))

C3_Defined ==
    /\ IsCVI
    /\ args.fcf_proyectado # <<>>
    /\ FGt(args.wacc, args.crecimiento_perpetuo)
    /\ FGe(AdjustedGrowth, Num(0))

(* C3: for a non-empty projection fcf_1..fcf_N, wacc > perpetuity_growth and
   g = min(perpetuity_growth, wacc - 0.005) >= 0, the result is
   sum_{i=1..N} fcf_i/(1+wacc)^i + (fcf_N*(1+g)/(wacc-g))/(1+wacc)^N. *)
C3_DiscountedValue ==
    C3_Defined =>
        ret = FAdd(PresentValue(args.fcf_proyectado, args.wacc,
                                Len(args.fcf_proyectado)),
                   TerminalPresentValue(args.fcf_proyectado, args.wacc,
                                        AdjustedGrowth))

(* two non-zero flows, a finite wacc and a clamped growth: a number came back *)
C3_Witness ==
    /\ C3_Defined
    /\ Len(args.fcf_proyectado) >= 2
    /\ \A i \in 1..Len(args.fcf_proyectado) : ~IsZero(args.fcf_proyectado[i])
    /\ IsFinite(args.wacc)
    /\ FLt(AdjustedGrowth, args.crecimiento_perpetuo)
    /\ IsFinite(ret) /\ ~IsZero(ret)

-----------------------------------------------------------------------------
(* properties of proyectar_fcf *)

IsPF == fn = "proyectar_fcf"

(* the value the recurrence gives to year i of the projection proy *)
RecurrenceValue(proy, i, current_fcf, g) ==
    IF i = 1
    THEN IF FGt(current_fcf, Num(0))
         THEN FMul(current_fcf, FAdd(Num(1), g))
         ELSE FAdd(FMul(FNeg(current_fcf), g), current_fcf)
    ELSE LET prev == proy[i - 1]
             prev_prev == IF i = 2 THEN current_fcf ELSE proy[i - 2]
         IN  IF FGt(prev, Num(0))
             THEN FMul(prev, FAdd(Num(1), g))
             ELSE FAdd(FMul(FSub(prev, prev_prev), FAdd(Num(1), g)), prev)

(* C4: every projected year follows the sign-dependent recurrence; in
   particular (100, 0.1, 1) gives [110] and (-100, 0.1, 1) gives [-90]. *)
C4_Recurrence ==
    IsPF =>
        /\ \A i \in 1..Len(ret) :
              ret[i] = RecurrenceValue(ret, i, args.fcf_actual, args.tasa_crecimiento)
        /\ (args.tasa_crecimiento = Rat(1, 10) /\ args.anios = 1) =>
              /\ args.fcf_actual = Num(100) => ret = <<Num(110)>>
              /\ args.fcf_actual = Num(-100) => ret = <<Num(-90)>>

(* proyectar_fcf(-100, 0.1, 3) returned [-90, -79, -66.9] *)
C4_Witness ==
    /\ IsPF
    /\ args.fcf_actual = Num(-100)
    /\ args.tasa_crecimiento = Rat(1, 10)
    /\ args.anios = 3
    /\ ret = <<Num(-90), Num(-79), Rat(-669, 10)>>

(* C5: for every current_fcf, growth rate and horizon (a number of years,
   5 by default) the projection has exactly as many values as the horizon. *)
C5_LengthIsHorizon ==
    (IsPF /\ args.anios >= 0) => Len(ret) = args.anios

(* a loss projected over the default horizon gave five values *)
C5_Witness ==
    /\ IsPF
    /\ FLt(args.fcf_actual, Num(0))
    /\ args.anios = DefaultAnios
    /\ Len(ret) = 5

-----------------------------------------------------------------------------
(* properties of calcular_crecimientos *)

IsCC == fn = "calcular_crecimientos"

FivePercent == Rat(5, 100)

(* the entries of the series that are not None *)
NonNoneCount == Cardinality({i \in 1..Len(args.fcf_series.items) :
                                args.fcf_series.items[i] # None})

(* C6: (0.05, 0.05) is returned for an absent series, an empty series, a
   single value, and a series with fewer than 2 entries that are not None. *)
C6_DefaultWhenTooShort ==
    IsCC =>
        ((\/ args.fcf_series.kind = "None"
          \/ Len(args.fcf_series.items) < 2
          \/ NonNoneCount < 2)
            => ret = <<FivePercent, FivePercent>>)

(* a list of three entries, two of them None and one a non-zero number *)
C6_Witness ==
    /\ IsCC
    /\ args.fcf_series.kind = "list"
    /\ Len(args.fcf_series.items) = 3
    /\ NonNoneCount = 1
    /\ \E i \in 1..3 : IsFinite(args.fcf_series.items[i])
                          /\ ~IsZero(args.fcf_series.items[i])
    /\ ret = <<FivePercent, FivePercent>>

(* the values the growth rates are computed from, most recent first *)
Usable == Valores(args.fcf_series)
First == Usable[1]
Last == Usable[Len(Usable)]

(* C7: with at least 2 values and the most recent or the oldest value zero
   or negative, the CAGR is exactly 0.05 and nothing is raised. *)
C7_CagrDefaultWhenNonPositive ==
    (IsCC /\ Len(Usable) >= 2 /\ (FLe(First, Num(0)) \/ FLe(Last, Num(0)))) =>
        /\ ~IsExc(ret)
        /\ ret[1] = FivePercent

(* both ends negative and finite, so that their ratio is positive *)
C7_Witness ==
    /\ IsCC
    /\ Len(Usable) >= 2
    /\ IsFinite(First) /\ FLt(First, Num(0))
    /\ IsFinite(Last) /\ FLt(Last, Num(0))
    /\ ret[1] = FivePercent

Periods == Len(Usable) - 1
Ratio == FDiv(First, Last)

(* (1 + cagr)^n = first/last, exactly when the n-th root of first/last is
   rational and to the resolution of the computed root otherwise *)
CagrMatches(cagr) ==
    LET lo == FPowInt(FAdd(Num(1), cagr), Periods)
        hi == FPowInt(FAdd(FAdd(Num(1), cagr), Rat(1, RootScale)), Periods)
    IN  lo = Ratio \/ (FLt(lo, Ratio) /\ FLt(Ratio, hi))

(* the series with every intermediate value replaced by 1 *)
EndsOnly ==
    [kind |-> "list",
     items |-> [i \in 1..Len(Usable) |->
                   IF i = 1 THEN First
                   ELSE IF i = Len(Usable) THEN Last ELSE Num(1)]]

(* C8, as stated: for every series of length >= 2 with first > 0 and
   last > 0 the CAGR satisfies (1 + cagr)^n = first/last, n = len - 1, and
   depends only on the first value, the last value and the count. *)
C8_CagrFormula ==
    (IsCC /\ Len(Usable) >= 2 /\ FGt(First, Num(0)) /\ FGt(Last, Num(0))) =>
        /\ CagrMatches(ret[1])
        /\ ret[1] = calcular_crecimientos(EndsOnly)[1]

(* C8, amended: the same for every series whose quotient first/last is a
   finite positive number; when first or last is infinite the CAGR is 0.05. *)
C8_CagrFormulaFinite ==
    (IsCC /\ Len(Usable) >= 2 /\ FGt(First, Num(0)) /\ FGt(Last, Num(0))) =>
        /\ (IsFinite(Ratio) /\ FGt(Ratio, Num(0))) => CagrMatches(ret[1])
        /\ ~(IsFinite(Ratio) /\ FGt(Ratio, Num(0))) => ret[1] = FivePercent
        /\ ret[1] = calcular_crecimientos(EndsOnly)[1]

(* [8, x, 2] with x other than 1: two periods, a ratio of 4 and a CAGR of 1 *)
C8_Witness ==
    /\ IsCC
    /\ Len(Usable) = 3
    /\ First = Num(8) /\ Last = Num(2)
    /\ Usable[2] # Num(1)
    /\ ret[1] = Num(1)

(* the values in chronological order, oldest first *)
Chron(k) == Usable[Len(Usable) + 1 - k]

(* the consecutive pairs (Chron(k), Chron(k+1)) whose prev is non-zero *)
QualifyingPairs == {k \in 1..(Len(Usable) - 1) : ~IsZero(Chron(k))}

RECURSIVE SumOfRates(_)
SumOfRates(k) ==
    IF k = 0 THEN Num(0)
    ELSE IF k \in QualifyingPairs
         THEN FAdd(SumOfRates(k - 1),
                   FDiv(FSub(Chron(k + 1), Chron(k)), FAbs(Chron(k))))
         ELSE SumOfRates(k - 1)

MeanRate == FDiv(SumOfRates(Len(Usable) - 1), Num(Cardinality(QualifyingPairs)))

(* C9, as stated: for every series of length >= 2 the average growth is the
   mean of (curr - prev)/abs(prev) over the chronologically consecutive
   pairs with prev # 0, and exactly 0.05 when no pair qualifies. *)
C9_AverageIsMean ==
    (IsCC /\ Len(Usable) >= 2) =>
        ret[2] = IF QualifyingPairs = {} THEN FivePercent ELSE MeanRate

(* C9, amended: the average growth is that mean whenever the mean is finite,
   and exactly 0.05 when no pair qualifies or the mean is NaN or infinite. *)
C9_AverageIsFiniteMean ==
    (IsCC /\ Len(Usable) >= 2) =>
        ret[2] = IF QualifyingPairs = {} THEN FivePercent
                 ELSE IF IsFinite(MeanRate) THEN MeanRate
                 ELSE FivePercent

(* three finite values, the pair with prev = 0 skipped and the other pair
   starting from a negative prev *)
C9_Witness ==
    /\ IsCC
    /\ Len(Usable) = 3
    /\ \A i \in 1..3 : IsFinite(Usable[i])
    /\ Cardinality(QualifyingPairs) = 1
    /\ \E k \in QualifyingPairs : FLt(Chron(k), Num(0))
    /\ ret[2] = MeanRate
    /\ ret[2] # FivePercent

(* C10: both growth rates returned are finite numbers: never None, NaN or
   an infinity, for any input series. *)
C10_GrowthIsFinite ==
    IsCC => (IsFinite(ret[1]) /\ IsFinite(ret[2]))

(* an infinite most recent value: both computed rates are infinite and both
   returned rates are 0.05 *)
C10_Witness ==
    /\ IsCC
    /\ Len(Usable) = 2
    /\ First = PInf /\ Last = Num(1)
    /\ IsInf(CagrCalc(Usable)) /\ IsInf(PromedioCalc(Usable))
    /\ ret = <<FivePercent, FivePercent>>

-----------------------------------------------------------------------------
(* properties of calcular_wacc *)

IsCW == fn = "calcular_wacc"

(* C11: calcular_wacc returns exactly 0 when debt + equity == 0, and
   otherwise (equity/(equity+debt))*cost_of_equity
             + (debt/(equity+debt))*cost_of_debt*(1 - tax_rate)
   with cost_of_equity = risk_free_rate + beta*(market_return - risk_free_rate) *)
C11_WaccFormula ==
    IsCW =>
        LET total == FAdd(args.equity, args.debt)
            cost_of_equity ==
                FAdd(args.risk_free_rate,
                     FMul(args.beta, FSub(args.market_return, args.risk_free_rate)))
        IN  IF FEq(total, Num(0)) THEN ret = Num(0)
            ELSE ret = FAdd(FMul(FDiv(args.equity, total), cost_of_equity),
                            FMul(FMul(FDiv(args.debt, total), args.cost_of_debt),
                                 FSub(Num(1), args.tax_rate)))

(* half debt and half equity, a 10% cost of debt taxed at 25% and a cost of
   equity of 8%: 0.5 * 0.08 + 0.5 * 0.1 * 0.75 = 0.0775 *)
C11_Witness ==
    /\ IsCW
    /\ args.debt = Num(100) /\ args.equity = Num(100)
    /\ args.cost_of_debt = Rat(1, 10) /\ args.tax_rate = Rat(1, 4)
    /\ args.beta = Num(1) /\ args.risk_free_rate = Rat(1, 25)
    /\ args.market_return = Rat(2, 25)
    /\ ret = Rat(31, 400)

(* debt and equity cancel out: 0 came back although no term is zero *)
C11_WitnessZero ==
    /\ IsCW
    /\ args.debt = Num(-100) /\ args.equity = Num(100)
    /\ args.beta = Num(1) /\ args.cost_of_debt = Rat(1, 10)
    /\ ret = Num(0)

-----------------------------------------------------------------------------
(* properties of the valuation of a ticker *)

IsED == fn = "ejecutar_dcf"

(* C12: with debt = 0 and equity > 0 the WACC is the CAPM cost of equity
   whatever the (finite) cost of debt and tax rate, and the capm that
   analizar_empresa reports is computed from the same beta, risk-free rate
   and market return, so that the reported wacc equals the reported capm *)
C12_WaccIsCapmWithoutDebt ==
    /\ (/\ IsCW
        /\ FEq(args.debt, Num(0)) /\ FGt(args.equity, Num(0))
        /\ \A x \in {args.beta, args.equity, args.cost_of_debt, args.tax_rate} :
               IsFinite(x))
       => FEq(ret, FAdd(args.risk_free_rate,
                        FMul(args.beta,
                             FSub(args.market_return, args.risk_free_rate))))
    /\ (/\ IsED
        /\ FEq(ret.deuda, Num(0)) /\ FGt(ret.market_cap, Num(0))
        /\ \A x \in {ret.beta, ret.market_cap, ret.cost_of_debt, ret.tasa_impositiva} :
               IsFinite(x))
       => /\ FEq(ret.wacc, ret.capm)
          /\ FEq(ret.capm, FAdd(ret.tasa_rf,
                                FMul(ret.beta, FSub(Rat(8, 100), ret.tasa_rf))))

(* a ticker without debt, ten shares at a price of 10, beta 1.5 and a
   risk-free rate of 4%: wacc and capm are both 10% *)
C12_Witness ==
    /\ IsED
    /\ ret.deuda = Num(0) /\ ret.market_cap = Num(100)
    /\ ret.beta = Rat(3, 2) /\ ret.tasa_rf = Rat(4, 100)
    /\ ret.cost_of_debt = Rat(1, 10) /\ ret.tasa_impositiva = Num(0)
    /\ ret.wacc = Rat(1, 10) /\ ret.capm = Rat(1, 10)

(* the intrinsic value per share and a non-zero price are both available:
   the value is not None, and neither of the two is nan *)
ValueAndPriceAvailable ==
    /\ ~IsNone(ret.valor_intrinseco) /\ ~IsNaN(ret.valor_intrinseco)
    /\ IsNum(ret.precio_actual) /\ ~IsNaN(ret.precio_actual)
    /\ ~IsZero(ret.precio_actual)

(* C13: whenever the intrinsic value per share and a non-zero price are both
   available, exactly one classification is produced: SUBVALUADA iff
   intrinsic > 1.1 * price, SOBREVALUADA iff intrinsic < 0.9 * price and
   RAZONABLE iff 0.9 * price <= intrinsic <= 1.1 * price, so that both
   boundary values are RAZONABLE *)
C13_Classification ==
    (IsED /\ ValueAndPriceAvailable) =>
        LET v == ret.valor_intrinseco
            upper == FMul(ret.precio_actual, Rat(11, 10))
            lower == FMul(ret.precio_actual, Rat(9, 10))
        IN  /\ ret.estado \in {"SUBVALUADA", "SOBREVALUADA", "RAZONABLE"}
            /\ ret.estado = "SUBVALUADA" <=> FGt(v, upper)
            /\ ret.estado = "SOBREVALUADA" <=> FLt(v, lower)
            /\ ret.estado = "RAZONABLE" <=> (FLe(lower, v) /\ FLe(v, upper))

(* a value of 19.525 per share at a price of 17.75: exactly 1.1 times the
   price, classified RAZONABLE *)
C13_Witness ==
    /\ IsED
    /\ ret.valor_intrinseco = Rat(781, 40)
    /\ ret.precio_actual = Rat(71, 4)
    /\ ret.estado = "RAZONABLE"

(* the same value at a price of 781/36: exactly 0.9 times the price *)
C13_WitnessLower ==
    /\ IsED
    /\ ret.valor_intrinseco = Rat(781, 40)
    /\ ret.precio_actual = Rat(781, 36)
    /\ ret.estado = "RAZONABLE"

(* the three classifications are all produced *)
C13_WitnessUnder == IsED /\ ValueAndPriceAvailable /\ ret.estado = "SUBVALUADA"
C13_WitnessOver == IsED /\ ValueAndPriceAvailable /\ ret.estado = "SOBREVALUADA"

(* C14: when the intrinsic value per share is None or the price is zero,
   estado is None and no percentage difference is reported *)
C14_NoClassificationWithoutValueOrPrice ==
    (IsED /\ (IsNone(ret.valor_intrinseco) \/ IsZero(ret.precio_actual))) =>
        /\ ret.estado = "None"
        /\ IsNone(ret.diferencia_pct)

(* ten shares, a price of zero and a numeric value per share: the difference
   is reported, the percentage and the classification are not *)
C14_Witness ==
    /\ IsED
    /\ IsFinite(ret.valor_intrinseco) /\ IsZero(ret.precio_actual)
    /\ ret.acciones = Num(10)
    /\ IsFinite(ret.diferencia)
    /\ ret.estado = "None" /\ IsNone(ret.diferencia_pct)

(* a positive price and no value per share *)
C14_WitnessNoValue ==
    /\ IsED
    /\ IsNone(ret.valor_intrinseco) /\ ret.precio_actual = Num(10)
    /\ ret.estado = "None" /\ IsNone(ret.diferencia_pct)

(* C15: whenever the enterprise value is defined, equity value = enterprise
   value - debt and the intrinsic value per share = equity value / shares
   outstanding; when the shares outstanding are zero or unknown, or the
   enterprise value is None, the intrinsic value per share is None: neither
   zero nor a division error *)
C15_PerShareValue ==
    IsED =>
        /\ IsNone(ret.raised)
        /\ ~IsNone(ret.valor_total) =>
               /\ ret.equity_value = FSub(ret.valor_total, ret.deuda)
               /\ ~(IsZero(ret.acciones) \/ IsNone(args.yf.sharesOutstanding)) =>
                      ret.valor_intrinseco = FDiv(ret.equity_value, ret.acciones)
        /\ (\/ IsZero(ret.acciones)
            \/ IsNone(args.yf.sharesOutstanding)
            \/ IsNone(ret.valor_total)) => IsNone(ret.valor_intrinseco)

(* an enterprise value above the debt of 100 and no shares: an equity value
   and no value per share *)
C15_Witness ==
    /\ IsED
    /\ IsFinite(ret.valor_total) /\ ret.deuda = Num(100)
    /\ FGt(ret.equity_value, Num(0))
    /\ args.yf.sharesOutstanding = Num(0)
    /\ IsNone(ret.valor_intrinseco)

(* an enterprise value of 781/4, no debt and ten shares: 781/40 per share *)
C15_WitnessPerShare ==
    /\ IsED
    /\ ret.valor_total = Rat(781, 4) /\ ret.deuda = Num(0)
    /\ ret.acciones = Num(10)
    /\ ret.valor_intrinseco = Rat(781, 40)

(* the history the growth rates are detected from, and the rates *)
HistoryUsed ==
    IF ret.fcf_historial # <<>>
    THEN [i \in 1..Len(ret.fcf_historial) |-> ret.fcf_historial[i].value]
    ELSE args.yf.cashflow
DetectedRates == calcular_crecimientos([kind |-> "list", items |-> HistoryUsed])
NumericOverride == IsNum(args.growth_override)

(* the rate the projection of the result was made with *)
ProjectedWith(rate) ==
    /\ ret.crecimiento = rate
    /\ ret.fcf_proyectado = proyectar_fcf(ret.fcf_actual, rate, 5)

(* C16: the projection uses the average growth rate only under the average
   method ("2") and the CAGR rate otherwise; under the CAGR method a numeric
   growth override is the rate used, and under the average method the
   override changes nothing *)
C16_GrowthSelection ==
    IsED =>
        /\ args.metodo = "2" =>
               /\ ProjectedWith(DetectedRates[2])
               /\ ret = ejecutar_dcf("2", args.fuente, None, args.fmp, args.yf, args.fred)
        /\ (args.metodo # "2" /\ NumericOverride) =>
               ProjectedWith(args.growth_override)
        /\ (args.metodo # "2" /\ ~NumericOverride) =>
               ProjectedWith(DetectedRates[1])

(* a history with a CAGR of 0 and an average of 25%, the CAGR method and an
   override of 10%: the projection grows by 10% *)
C16_Witness ==
    /\ IsED
    /\ args.metodo = "1" /\ args.growth_override = Rat(1, 10)
    /\ DetectedRates = <<Num(0), Rat(1, 4)>>
    /\ ret.crecimiento = Rat(1, 10)
    /\ ret.fcf_proyectado[1] = Rat(11, 5)

(* the same history and override under the average method: 25% *)
C16_WitnessAverage ==
    /\ IsED
    /\ args.metodo = "2" /\ args.growth_override = Rat(1, 10)
    /\ DetectedRates = <<Num(0), Rat(1, 4)>>
    /\ ret.crecimiento = Rat(1, 4)
    /\ ret.fcf_proyectado[1] = Rat(5, 2)

(* a float or None: not a raised exception *)
NotRaised(x) == IsNone(x) \/ IsNum(x)

(* C17: no function of the valuation engine raises for data-quality
   reasons: calcular_crecimientos returns two floats, calcular_wacc a float,
   proyectar_fcf a list of floats, calcular_valor_intrinseco a float or None,
   and their composition returns a result whose fields are floats or None *)
C17_NeverRaises ==
    /\ IsCC => (Len(ret) = 2 /\ IsNum(ret[1]) /\ IsNum(ret[2]))
    /\ IsCW => IsNum(ret)
    /\ IsPF => \A i \in 1..Len(ret) : IsNum(ret[i])
    /\ IsCVI => NotRaised(ret)
    /\ IsED =>
           /\ IsNone(ret.raised)
           /\ \A i \in 1..Len(ret.fcf_proyectado) : IsNum(ret.fcf_proyectado[i])
           /\ \A x \in {ret.crecimiento_detectado, ret.crecimiento_promedio,
                        ret.crecimiento, ret.capm, ret.wacc, ret.valor_total,
                        ret.equity_value, ret.valor_intrinseco, ret.diferencia,
                        ret.diferencia_pct, ret.safety_margin,
                        ret.valor_terminal} : NotRaised(x)
           /\ ret.estado \in {"None", "SUBVALUADA", "SOBREVALUADA", "RAZONABLE"}

(* no history, no shares, no price and no debt: default growth rates, a WACC
   of 0 and None for the values *)
C17_Witness ==
    /\ IsED
    /\ HistoryUsed = <<>>
    /\ IsZero(ret.acciones) /\ IsZero(ret.precio_actual) /\ IsZero(ret.deuda)
    /\ ret.crecimiento_detectado = Rat(5, 100)
    /\ ret.wacc = Num(0)
    /\ IsNone(ret.valor_total) /\ IsNone(ret.valor_intrinseco)
    /\ ret.estado = "None"

(* a history of negative flows, a WACC of 10% and no shares *)
C17_WitnessNegative ==
    /\ IsED
    /\ HistoryUsed = <<Num(-2), Num(-1)>>
    /\ IsFinite(ret.valor_total) /\ IsZero(ret.acciones)
    /\ IsNone(ret.valor_intrinseco)

(* a value given that is not a finite number *)
Invalid(x) == ~IsNone(x) /\ ~IsFinite(x)

(* C18: invalid numeric input (not a number, nan or infinite) never reaches
   the projection, WACC or discounting arithmetic: an invalid growth
   override is replaced by a default rate, an invalid capital input is read
   as zero or as its default, and so every rate and capital input of the
   result is finite *)
C18_InvalidInputSanitized ==
    IsED =>
        /\ Invalid(args.growth_override) =>
               ret.crecimiento \in {DefaultGrowth, DetectedRates[1], DetectedRates[2]}
        /\ Invalid(args.yf.beta) => ret.beta = DefaultBeta
        /\ Invalid(args.yf.close) => ret.precio_actual = Num(0)
        /\ \A x \in {ret.crecimiento, ret.beta, ret.acciones, ret.precio_actual,
                     ret.deuda, ret.tasa_impositiva, ret.cost_of_debt,
                     ret.wacc} : IsFinite(x)
        /\ \A i \in 1..Len(ret.fcf_proyectado) : IsFinite(ret.fcf_proyectado[i])

(* a nan growth override under the CAGR method: the rate, the projection
   and the value per share are nan and the ticker is classified RAZONABLE *)
C18_NanOverrideReachesProjection ==
    /\ IsED
    /\ args.metodo = "1" /\ IsNaN(args.growth_override)
    /\ IsNaN(ret.crecimiento)
    /\ \A i \in 1..5 : IsNaN(ret.fcf_proyectado[i])
    /\ IsNaN(ret.valor_total) /\ IsNaN(ret.valor_intrinseco)
    /\ ret.estado = "RAZONABLE"

(* a nan closing price: the equity and the WACC are nan *)
C18_NanPriceReachesWacc ==
    /\ IsED
    /\ IsNaN(args.yf.close)
    /\ IsNaN(ret.precio_actual) /\ IsNaN(ret.market_cap) /\ IsNaN(ret.wacc)

(* a text in place of a number is replaced by the default *)
C18_TextReplaced ==
    /\ IsED
    /\ args.growth_override = NoNumerico /\ args.metodo = "1"
    /\ args.yf.effectiveTaxRate = NoNumerico
    /\ ret.crecimiento = DetectedRates[1]
    /\ ret.tasa_impositiva = DefaultTaxRate


(* C19: when neither provider's statements give a tax rate (resp. a cost of
   debt), the valuation uses a tax rate of 0.25 (resp. a cost of debt of
   0.05), as the message says; when the request for the risk-free rate
   fails or gives no valid observation, 0.0441 is used. *)
LookupFails(response) ==
    \/ response.status # "ok"
    \/ \A i \in 1..Len(response.observations) :
           ~IsNum(response.observations[i])

C19_FallbackDefaults ==
    /\ IsED =>
          /\ IsNone(ret.tax_rate_override) => ret.tasa_impositiva = DefaultTaxRate
          /\ IsNone(ret.cost_of_debt_override) => ret.cost_of_debt = DefaultCostOfDebt
          /\ LookupFails(args.fred) => ret.tasa_rf = FallbackRiskFreeRate
    /\ fn = "obtener_tasa_libre_riesgo" =>
          (LookupFails(args.response) => ret = FallbackRiskFreeRate)

(* no statement gave a rate and the valuation used the effectiveTaxRate and
   the yield of the yfinance info instead of 25% and 5% *)
C19_InfoRateUsed ==
    /\ IsED
    /\ IsNone(ret.tax_rate_override) /\ IsNone(ret.cost_of_debt_override)
    /\ ret.tasa_impositiva = args.yf.effectiveTaxRate
    /\ ret.tasa_impositiva # DefaultTaxRate
    /\ ret.cost_of_debt = args.yf.yield
    /\ ret.cost_of_debt # DefaultCostOfDebt

(* the part of C19 about the risk-free rate, on its own *)
C19_RiskFreeFallback ==
    /\ IsED => (LookupFails(args.fred) => ret.tasa_rf = FallbackRiskFreeRate)
    /\ fn = "obtener_tasa_libre_riesgo" =>
          (LookupFails(args.response) => ret = FallbackRiskFreeRate)

C19_RiskFreeFallbackUsed ==
    /\ IsED /\ LookupFails(args.fred) /\ ret.tasa_rf = FallbackRiskFreeRate

(* the default is used when the info has no number either *)
C19_DefaultsWithoutInfo ==
    IsED =>
        /\ (IsNone(ret.tax_rate_override) /\ ~IsNum(args.yf.effectiveTaxRate))
              => ret.tasa_impositiva = DefaultTaxRate
        /\ (IsNone(ret.cost_of_debt_override) /\ ~IsNum(args.yf.yield))
              => ret.cost_of_debt = DefaultCostOfDebt

(* the messages that name the 25% and the 5% are never appended *)
C19_MessageNeverEmitted ==
    IsED => /\ ~ret.mensaje_tasa_predeterminada
            /\ ~ret.mensaje_costo_predeterminado


(* C20: a negative projection horizon passed to proyectar_fcf ends in an
   error, never in the normal return of a list of projections. *)
C20_NegativeHorizonIsAnError ==
    (fn = "proyectar_fcf" /\ args.anios < 0) => IsExc(ret)

(* range(-1) is empty: the call returns the empty list like a horizon of 0 *)
C20_NegativeHorizonReturnsEmpty ==
    /\ fn = "proyectar_fcf"
    /\ args.anios < 0
    /\ ret = <<>>


-----------------------------------------------------------------------------
(* C21: for a negative current FCF and a positive (finite) growth rate the
   projection shrinks the loss: the first projected value is strictly
   greater than current_fcf and every later value is strictly greater than
   the one before it, for every horizon. *)
LossWithGrowth ==
    /\ IsPF
    /\ IsFinite(args.fcf_actual) /\ FLt(args.fcf_actual, Num(0))
    /\ IsFinite(args.tasa_crecimiento) /\ FGt(args.tasa_crecimiento, Num(0))

(* a < b for finite floats, by the sign of b - a *)
StrictlyGreater(b, a) == IsFinite(a) /\ IsFinite(b) /\ SignOf(FSub(b, a)) = 1

C21_LossShrinks ==
    LossWithGrowth =>
        \A i \in 1..Len(ret) :
            StrictlyGreater(ret[i], IF i = 1 THEN args.fcf_actual ELSE ret[i - 1])

(* proyectar_fcf(-100, 0.1, 4) returned four values, each a smaller loss *)
C21_Witness ==
    /\ LossWithGrowth
    /\ args.fcf_actual = Num(-100)
    /\ args.tasa_crecimiento = Rat(1, 10)
    /\ Len(ret) = 4
    /\ ret[1] = Num(-90)
    /\ StrictlyGreater(ret[4], ret[3])

(* with a growth of 200% the loss of 100 turns into a gain in the first year *)
C21_WitnessTurnsPositive ==
    /\ LossWithGrowth
    /\ args.tasa_crecimiento = Num(2)
    /\ Len(ret) >= 2
    /\ FGt(ret[1], Num(0))


-----------------------------------------------------------------------------
(* C22: whenever the valuation is defined, the terminal value reported in
   the result is the undiscounted terminal value calcular_valor_intrinseco
   used: final_fcf * (1 + g) / (wacc - g) with g = min(0.02, wacc - 0.005). *)
ValuationDefined == IsED /\ IsFinite(ret.valor_total) /\ IsFinite(ret.wacc)

TerminalGrowthUsed == FMin(DefaultCrecimientoPerpetuo, FSub(ret.wacc, MargenCrecimiento))

TerminalValueUsed ==
    FDiv(FMul(ret.fcf_proyectado[Len(ret.fcf_proyectado)],
              FAdd(Num(1), TerminalGrowthUsed)),
         FSub(ret.wacc, TerminalGrowthUsed))

C22_TerminalValueReported ==
    ValuationDefined => ret.valor_terminal = TerminalValueUsed

(* at a WACC of 1/41 the valuation grew the terminal value at
   1/41 - 0.005 and the result reports the one grown at 2% *)
C22_ReportedDiffers ==
    /\ ValuationDefined
    /\ ret.wacc = Rat(1, 41)
    /\ TerminalGrowthUsed = Rat(159, 8200)
    /\ ret.valor_terminal # TerminalValueUsed
    /\ ret.valor_terminal =
          FDiv(FMul(ret.fcf_proyectado[5], FAdd(Num(1), crecimiento_largo_plazo)),
               FSub(ret.wacc, crecimiento_largo_plazo))

(* at a WACC of 10% both use 2% and the two values agree *)
C22_AgreesAtTenPercent ==
    (ValuationDefined /\ ret.wacc = Rat(1, 10)) => ret.valor_terminal = TerminalValueUsed


-----------------------------------------------------------------------------
(* C23: the FCF history handed to the engine is ordered most recent first
   (by year descending, entries without a year after all dated ones, entries
   of equal key in the order FMP gave them), and the current FCF that
   analizar_empresa projects is the value of its first entry, or 0.0 when
   the history is empty. *)
Dated(e) == ~IsNone(e.year)

MostRecentFirst(h) ==
    \A i, j \in 1..Len(h) :
        i < j => /\ Dated(h[j]) => Dated(h[i])
                 /\ (Dated(h[i]) /\ Dated(h[j])) => FGe(h[i].year, h[j].year)

SameKey(a, b) ==
    \/ ~Dated(a) /\ ~Dated(b)
    \/ Dated(a) /\ Dated(b) /\ a.year = b.year

(* h is given rearranged by a permutation that keeps entries of equal key
   in their order *)
StableRearrangement(h, given) ==
    /\ Len(h) = Len(given)
    /\ \E p \in [1..Len(h) -> 1..Len(h)] :
          /\ \A i, j \in 1..Len(h) : i # j => p[i] # p[j]
          /\ \A i \in 1..Len(h) : h[i] = given[p[i]]
          /\ \A i, j \in 1..Len(h) :
                (i < j /\ SameKey(h[i], h[j])) => p[i] < p[j]

C23_MostRecentFirst ==
    IsED =>
        /\ ret.fuente_datos = "fmp" =>
              /\ MostRecentFirst(ret.fcf_historial)
              /\ StableRearrangement(ret.fcf_historial, args.fmp.fcf_historial)
        /\ ret.fcf_actual = IF HistoryUsed = <<>> THEN Num(0) ELSE HistoryUsed[1]

(* FMP answered (no year: 2), (2023: 1), (2024: 2); the engine got 2024,
   2023 and the undated entry, and projected from the 2 of 2024 *)
C23_Witness ==
    /\ IsED
    /\ args.fmp.fcf_historial =
          <<FCFEntry(None, Num(2)), FCFEntry(Num(2023), Num(1)),
            FCFEntry(Num(2024), Num(2))>>
    /\ ret.fcf_historial =
          <<FCFEntry(Num(2024), Num(2)), FCFEntry(Num(2023), Num(1)),
            FCFEntry(None, Num(2))>>
    /\ ret.fcf_actual = Num(2)

(* two entries of the same year stayed in the order FMP gave them *)
C23_WitnessStable ==
    /\ IsED
    /\ ret.fcf_historial =
          <<FCFEntry(Num(2024), Num(1)), FCFEntry(Num(2024), Num(-1))>>
    /\ ret.fcf_historial = args.fmp.fcf_historial
    /\ ret.fcf_actual = Num(1)

(* no history from either provider: the current FCF is 0.0 *)
C23_WitnessEmpty ==
    /\ IsED
    /\ HistoryUsed = <<>>
    /\ ret.fcf_actual = Num(0)


-----------------------------------------------------------------------------
(* C24: the tax rate that obtener_metricas_financieras and
   _obtener_metricas_yfinance resolve from the statements is the mean of
   per-year samples, each in [0, 1.5), hence itself in [0, 1.5); a year whose
   ratio is outside that range or whose pre-tax income is zero gives no
   sample; with no sample the rate is None. *)
IsMetricas == fn \in {"obtener_metricas_financieras", "_obtener_metricas_yfinance"}

StatementsGiven ==
    IF fn = "obtener_metricas_financieras" THEN args.income_statements
    ELSE args.financials
ResolvedTaxRate ==
    IF fn = "obtener_metricas_financieras" THEN ret.tax_rate ELSE ret[1]
TaxSamples ==
    IF fn = "obtener_metricas_financieras" THEN ret.tax_samples ELSE ret[2]

InTaxRange(x) == IsFinite(x) /\ FLe(Num(0), x) /\ FLt(x, Rat(3, 2))

(* |tax expense| / |pre-tax income| of a statement that has both *)
TaxRatio(st) == FDiv(FAbs(st.impuesto), FAbs(st.ingreso_pre_impuesto))

GivesSample(st) ==
    /\ IsNum(st.impuesto) /\ IsNum(st.ingreso_pre_impuesto)
    /\ ~IsZero(st.ingreso_pre_impuesto)
    /\ InTaxRange(TaxRatio(st))

RECURSIVE SumSamples(_, _)
SumSamples(d, years) ==
    IF years = {} THEN Num(0)
    ELSE LET y == CHOOSE k \in years : TRUE
         IN  FAdd(d[y], SumSamples(d, years \ {y}))

C24_TaxRateIsMeanOfValidSamples ==
    IsMetricas =>
        /\ \A y \in DOMAIN TaxSamples :
              /\ InTaxRange(TaxSamples[y])
              /\ \E i \in 1..Len(StatementsGiven) :
                    /\ StatementsGiven[i].year = y
                    /\ GivesSample(StatementsGiven[i])
                    /\ TaxSamples[y] = TaxRatio(StatementsGiven[i])
        /\ (\A i \in 1..Len(StatementsGiven) : ~GivesSample(StatementsGiven[i]))
              => DOMAIN TaxSamples = {}
        /\ DOMAIN TaxSamples = {} <=> IsNone(ResolvedTaxRate)
        /\ DOMAIN TaxSamples # {} =>
              /\ ResolvedTaxRate =
                    FDiv(SumSamples(TaxSamples, DOMAIN TaxSamples),
                         Num(Cardinality(DOMAIN TaxSamples)))
              /\ InTaxRange(ResolvedTaxRate)

(* FMP: a ratio of 1.49 in 2024 and of 0.3 in 2023 gave the rate 0.895 *)
C24_Witness ==
    /\ fn = "obtener_metricas_financieras"
    /\ Len(args.income_statements) = 2
    /\ ret.tax_samples = (Num(2024) :> Rat(149, 100)) @@ (Num(2023) :> Rat(3, 10))
    /\ ret.tax_rate = Rat(179, 200)

(* yfinance: a ratio of exactly 1.5 and a year without pre-tax income gave
   no sample and no rate *)
C24_WitnessNone ==
    /\ fn = "_obtener_metricas_yfinance"
    /\ Len(args.financials) = 2
    /\ args.financials[1].year = Num(2024)
    /\ args.financials[1].impuesto = Num(150)
    /\ args.financials[1].ingreso_pre_impuesto = Num(100)
    /\ args.financials[2].year = Num(2023)
    /\ IsZero(args.financials[2].ingreso_pre_impuesto)
    /\ ret[2] = <<>>
    /\ IsNone(ret[1])


-----------------------------------------------------------------------------
(* C25: whenever calcular_valor_intrinseco computes the terminal value, its
   denominator wacc - adjusted_growth is at least 0.005, so the division by
   zero that is mapped to None never occurs and every numeric result comes
   from a positive denominator. *)
TerminalValueComputed ==
    /\ IsCVI
    /\ args.fcf_proyectado # <<>>
    /\ ~FLe(args.wacc, Num(0))
    /\ ~CrecimientoInvalido(CrecimientoAjustado(args.wacc, args.crecimiento_perpetuo))

TerminalDenominator ==
    DenominadorResidual(args.wacc,
                        CrecimientoAjustado(args.wacc, args.crecimiento_perpetuo))

C25_DenominatorAtLeastMargin ==
    /\ TerminalValueComputed =>
          /\ FGe(TerminalDenominator, Rat(5, 1000))
          /\ ~IsNone(ret) /\ ~IsExc(ret)
    /\ (IsCVI /\ IsNum(ret)) =>
          (TerminalValueComputed /\ FGt(TerminalDenominator, Num(0)))

(* wacc = 1% and a perpetuity growth of 0.75%: the growth was cut to 0.5%
   and the denominator is exactly 0.005 *)
C25_Witness ==
    /\ TerminalValueComputed
    /\ args.wacc = Rat(1, 100)
    /\ args.crecimiento_perpetuo = Rat(3, 400)
    /\ TerminalDenominator = Rat(5, 1000)
    /\ Len(args.fcf_proyectado) = 2
    /\ IsFinite(ret)


-----------------------------------------------------------------------------
(* C26: in every result of ejecutar_dcf the field crecimiento_utilizado is
   the growth rate the FCF was projected with (metricas.crecimiento), under
   the CAGR method and under the average method, with or without a growth
   override. *)
C26_ReportedGrowthIsUsedGrowth ==
    IsED =>
        /\ ret.crecimiento_utilizado = ret.crecimiento
        /\ ret.fcf_proyectado =
              proyectar_fcf(ret.fcf_actual, ret.crecimiento_utilizado, DefaultAnios)

(* the average method on the history 2, 1, 2: the flows were projected at
   the average rate of 25% and the result reports the CAGR of 0% as used *)
C26_AverageUsedCagrReported ==
    /\ IsED
    /\ args.metodo = "2"
    /\ ret.crecimiento = Rat(1, 4)
    /\ ret.crecimiento = ret.crecimiento_promedio
    /\ ret.crecimiento_utilizado = Num(0)
    /\ ret.crecimiento_utilizado = ret.crecimiento_detectado
    /\ ret.fcf_proyectado = proyectar_fcf(ret.fcf_actual, Rat(1, 4), DefaultAnios)

(* under the CAGR method the two fields agree, override or not *)
C26_AgreesUnderCagr ==
    (IsED /\ args.metodo = "1") => ret.crecimiento_utilizado = ret.crecimiento


-----------------------------------------------------------------------------
(* C27: the Safety Margin filter is marked as passed only if the intrinsic
   value per share is greater than the current price; it is never passed
   when the classification is SOBREVALUADA or the intrinsic value per share
   is negative. *)
C27_SafetyMarginOnlyAbovePrice ==
    (IsED /\ ret.safety_margin_cumple) =>
        /\ FGt(ret.valor_intrinseco, ret.precio_actual)
        /\ ret.estado # "SOBREVALUADA"
        /\ ~FLt(ret.valor_intrinseco, Num(0))

(* a negative value per share at a price of 10: (v - 10) / v is positive,
   the filter is passed and the ticker is classified SOBREVALUADA *)
C27_PassedWithNegativeValue ==
    /\ IsED
    /\ FLt(ret.valor_intrinseco, Num(0))
    /\ ret.precio_actual = Num(10)
    /\ FGt(ret.safety_margin, Num(1))
    /\ ret.safety_margin_cumple
    /\ ret.estado = "SOBREVALUADA"

(* with a positive value per share the filter is passed exactly when the
   value is above the price *)
C27_HoldsForPositiveValue ==
    (IsED /\ IsFinite(ret.valor_intrinseco) /\ FGt(ret.valor_intrinseco, Num(0))
          /\ IsFinite(ret.precio_actual) /\ ~IsZero(ret.precio_actual)) =>
        (ret.safety_margin_cumple <=> FGt(ret.valor_intrinseco, ret.precio_actual))


-----------------------------------------------------------------------------
(* C28: the optional fields of a valuation result are consistent:
   diferencia is None iff valor_intrinseco is None; diferencia_pct is None
   iff estado is None iff (valor_intrinseco is None or precio_actual is 0);
   valor_intrinseco is None iff (the enterprise value is None or there are
   0 shares); the terminal value is None iff the enterprise value is None. *)
C28_OptionalFieldsConsistent ==
    IsED =>
        /\ IsNone(ret.diferencia) <=> IsNone(ret.valor_intrinseco)
        /\ IsNone(ret.diferencia_pct) <=> ret.estado = "None"
        /\ ret.estado = "None" <=>
              (IsNone(ret.valor_intrinseco) \/ IsZero(ret.precio_actual))
        /\ IsNone(ret.valor_intrinseco) <=>
              (IsNone(ret.valor_total) \/ IsZero(ret.acciones))
        /\ IsNone(ret.valor_terminal) <=> IsNone(ret.valor_total)

(* ten shares at a price of 0 and a defined enterprise value: a value per
   share and a difference, no percentage and no classification *)
C28_Witness ==
    /\ IsED
    /\ ret.acciones = Num(10) /\ IsZero(ret.precio_actual)
    /\ IsFinite(ret.valor_total) /\ IsFinite(ret.valor_terminal)
    /\ IsFinite(ret.valor_intrinseco) /\ ret.diferencia = ret.valor_intrinseco
    /\ IsNone(ret.diferencia_pct) /\ ret.estado = "None"

(* no enterprise value (a WACC of 0): every optional field is None *)
C28_WitnessNoValue ==
    /\ IsED
    /\ IsNone(ret.valor_total) /\ ~IsZero(ret.acciones) /\ ~IsZero(ret.precio_actual)
    /\ IsNone(ret.valor_terminal) /\ IsNone(ret.valor_intrinseco)
    /\ IsNone(ret.diferencia) /\ IsNone(ret.diferencia_pct) /\ ret.estado = "None"


-----------------------------------------------------------------------------
(* C29: in ejecutar_dcf the source used (fuente_datos) is always "fmp" or
   "yfinance"; it is "fmp" iff the source asked for is "auto" or "fmp" and
   the FMP history call succeeded with a non-empty history; the FMP history
   is passed to analizar_empresa only when fuente_datos is "fmp"; whenever
   FMP was asked for and not used, exactly one fallback message is recorded
   and it tells an FMP error from FMP having no data. *)
FmpRequested == ret.fuente_solicitada \in {"auto", "fmp"}

SourceSelection ==
    /\ ret.fuente_datos \in {"fmp", "yfinance"}
    /\ ret.fuente_datos = "fmp" <=>
          (FmpRequested /\ ~args.fmp.error /\ args.fmp.fcf_historial # <<>>)
    /\ ret.fcf_historial # <<>> => ret.fuente_datos = "fmp"
    /\ (FmpRequested /\ ret.fuente_datos # "fmp") =>
          /\ Len(ret.mensajes_fallback) = 1
          /\ ret.mensajes_fallback[1] \in {"fmp: error", "auto: error"}
                <=> args.fmp.error
          /\ ret.mensajes_fallback[1] \in {"fmp: sin datos", "auto: sin datos"}
                <=> ~args.fmp.error
    /\ ~(FmpRequested /\ ret.fuente_datos # "fmp") => ret.mensajes_fallback = <<>>

(* C29 as stated: and with "yfinance" asked for no FMP call is made at all *)
C29_NoFmpCallForYfinance ==
    IsED =>
        /\ SourceSelection
        /\ ret.fuente_solicitada = "yfinance" => ret.llamadas_fmp = {}

(* C29, amended: with "yfinance" asked for no FMP call for financial data is
   made; analizar_empresa still asks FMP for news exactly when yfinance gave
   fewer than 18 news items, whatever source was asked for *)
C29_NoFmpDataCallForYfinance ==
    IsED =>
        /\ SourceSelection
        /\ ret.fuente_solicitada = "yfinance" => ret.llamadas_fmp \subseteq {"noticias"}
        /\ "noticias" \in ret.llamadas_fmp <=> args.yf.noticias < 18
        /\ FmpRequested <=> "fcf_historico" \in ret.llamadas_fmp

(* "fmp" asked for, FMP failed: yfinance used, one message naming the error *)
C29_Witness ==
    /\ IsED
    /\ args.fuente = "FMP" /\ ret.fuente_solicitada = "fmp"
    /\ args.fmp.error /\ args.fmp.fcf_historial # <<>>
    /\ ret.fuente_datos = "yfinance"
    /\ ret.fcf_historial = <<>>
    /\ ret.mensajes_fallback = <<"fmp: error">>

(* "yfinance" asked for and no news from yfinance: FMP was asked for news *)
C29_FmpNewsCallForYfinance ==
    /\ IsED
    /\ args.fuente = "yfinance"
    /\ args.yf.noticias = 0
    /\ ret.fuente_datos = "yfinance"
    /\ ret.llamadas_fmp = {"noticias"}

(* "auto" asked for and FMP has no data: one message, none of an error *)
C29_WitnessNoData ==
    /\ IsED
    /\ args.fuente = "" /\ ret.fuente_solicitada = "auto"
    /\ ~args.fmp.error /\ args.fmp.fcf_historial = <<>>
    /\ ret.fuente_datos = "yfinance"
    /\ ret.mensajes_fallback = <<"auto: sin datos">>

-----------------------------------------------------------------------------
(* properties of views._guardar_analisis *)

SameAnalysis(a, b) == a.campos = b.campos
WithinWindow(a, b) == AbsInt(a.created_at - b.created_at) <= VentanaReciente
SavedAnalysis(q) == CamposFiltro(q.ticker, q.metodo, q.resultado)

(* C30: after any interleaving of analysis requests, no two stored rows
   with the same ticker, method, source used, intrinsic value, price and
   percentage difference were created within five minutes of each other *)
C30_NoRecentDuplicates ==
    \A i, j \in 1..Len(analysis_records) :
        (i < j /\ SameAnalysis(analysis_records[i], analysis_records[j]))
            => ~WithinWindow(analysis_records[i], analysis_records[j])

(* two requests both queried before either inserted: the same analysis is
   stored twice in the same minute *)
C30_StoredTwiceInTheSameMinute ==
    \E i, j \in 1..Len(analysis_records) :
        /\ i < j
        /\ SameAnalysis(analysis_records[i], analysis_records[j])
        /\ analysis_records[i].created_at = analysis_records[j].created_at

(* a save found a record of the last five minutes, created nothing and
   returned None *)
C30_SaveSkipped ==
    \E r \in Requests :
        /\ requests[r].pc = "hecho"
        /\ ~requests[r].creado
        /\ Len(analysis_records) = 1
        /\ analysis_records[1].campos = SavedAnalysis(requests[r])
        /\ analysis_records[1].created_at >= now - VentanaReciente

(* the same analysis is stored again once the window has passed *)
C30_StoredAgainAfterWindow ==
    \E i, j \in 1..Len(analysis_records) :
        /\ i < j
        /\ SameAnalysis(analysis_records[i], analysis_records[j])
        /\ ~WithinWindow(analysis_records[i], analysis_records[j])

=============================================================================
